---- MODULE Spec2Model ----
(***************************************************************************)
(* OpenXML Editor: the archive virtualization and synchronization engine   *)
(* (OpenXMLFileSystemProvider) as a state machine, and the XML formatter.   *)
(*                                                                         *)
(* Spec is the engine with one container path, SpecSessions the engine     *)
(* with two container paths, SpecFormat XMLFormatter.formatXML, SpecLive   *)
(* the engine under fair scheduling, SpecUri createUri and parseUri.       *)
(*                                                                         *)
(* In Spec, JavaScript runs each callback to                               *)
(* completion: an action is one callback, from the event that starts it to *)
(* its next await on real I/O.  The synchronous tail of saveChanges        *)
(* (unlink, rename, stat, unlink backup, clear) is split in two steps so   *)
(* that the disk can be observed between the unlink and the rename; the    *)
(* variable cpu keeps every other callback out between those two steps.    *)
(***************************************************************************)
EXTENDS Integers, Sequences, FiniteSets, TLC

(* ------------------------------ bounds -------------------------------- *)

\* Payloads are the numbers 0..MaxByte.
MaxByte == 1

\* Total weight of the inputs from outside the engine (commands, edits by
\* other programs, injected I/O failures) in one behaviour; see InputCost.
MaxInputs == 5

(* ------------------------- names and payloads -------------------------- *)

Bytes == 0..MaxByte

\* Internal paths of files of the archive.
Paths == {"a.xml", "m.bin"}

\* Entry names of the archive's central directory, in its order.
EntryOrder == <<"d/", "a.xml", "m.bin">>

Names == {EntryOrder[k] : k \in 1..Len(EntryOrder)}

\* entry.fileName.endsWith('/')
EndsWithSlash(n) == n = "d/"

\* path.extname(filePath).toLowerCase()
ExtName(n) ==
  CASE n = "a.xml" -> ".xml"
    [] n = "m.bin" -> ".bin"
    [] OTHER -> ""

FILE_EXTENSIONS_xml == {".xml", ".rels"}

isXMLFile(n) == ExtName(n) \in FILE_EXTENSIONS_xml

\* A map as a function on a finite set of keys.
EmptyMap == <<>>

MapSet(m, k, v) == [x \in (DOMAIN m) \cup {k} |-> IF x = k THEN v ELSE m[x]]

MapDel(m, ks) == [x \in (DOMAIN m) \ ks |-> m[x]]

\* A file that does not exist.
NoFile == [ex |-> FALSE, img |-> EmptyMap, mt |-> 0]

File(img, mt) == [ex |-> TRUE, img |-> img, mt |-> mt]

\* The entries of a ZIP image in central-directory order.
Entries(img) == SelectSeq(EntryOrder, LAMBDA n : n \in DOMAIN img)

\* The position of an entry name in the central directory.
EntryNo(n) == CHOOSE k \in 1..Len(EntryOrder) : EntryOrder[k] = n

\* The ghost step label.
\* name: the step; o: the object it ran on; k: the index of the save, prompt
\* or extraction it continued, or EntryNo of the temp file it is about (0:
\* none).
Op(name, o, k) == [name |-> name, o |-> o, k |-> k]

(* ------------------------------- state --------------------------------- *)

VARIABLES
  orig,        \* the container file at originalPath
  backup,      \* originalPath + '.backup'
  tmp,         \* originalPath + '.tmp'
  objs,        \* the OpenXMLTempData objects created so far, with their temp dirs
  cur,         \* openXMLFiles.get(originalPath): an index of objs, or 0
  opened,      \* openedOpenXMLFiles.has(originalPath)
  autoTimers,  \* pending setTimeout(() => autoSave(originalPath)) callbacks
  saves,       \* saveChanges calls awaiting their write stream
  prompts,     \* handleSourceFileChange calls awaiting the user's choice
  extracts,    \* extractArchiveFiles calls still reading entries
  cpu,         \* 0, or the index of the save between its unlink and its rename
  clock,       \* the newest modification time handed out
  inputs,      \* inputs from outside so far
  closing,     \* closeOpenXMLFile calls awaiting the answer to their question
  op,          \* ghost: the step taken last
  multi,       \* the engine with two container paths (SpecSessions)
  fmt,         \* a run of XMLFormatter.formatXML (SpecFormat)
  uris         \* pathMappings and the URIs handed out (SpecUri)

\* The variables of the one-path engine.
engineVars == <<orig, backup, tmp, objs, cur, opened, autoTimers, saves, prompts,
                extracts, cpu, clock, inputs, closing, op>>

vars == <<engineVars, multi, fmt, uris>>

\* A fresh OpenXMLTempData (loadOpenXMLFile), with an empty temp directory.
\* tTimers: the temp files whose open watcher has its debounce timer pending;
\* zTimers: the temp files with a pending debounce timer of a watcher that has
\* been closed since; tempDir: the temp directory exists; tdisk: its files;
\* base (ghost): the entries as last extracted or saved; savedMt (ghost): the
\* modification time of the container that the last save of this object left;
\* written (ghost): the bytes that writeFile stored for an entry, until a save
\* has stored them, the temp file of the entry is edited, or a Reload;
\* restoredMt (ghost): the modification time of the container that the last
\* restore from the backup left.
NewData(lastModified) ==
  [ files        |-> EmptyMap,
    tempFiles    |-> {},
    modified     |-> {},
    watchers     |-> {},
    srcWatch     |-> FALSE,
    lastModified |-> lastModified,
    tTimers      |-> {},
    zTimers      |-> {},
    sTimer       |-> FALSE,
    tempDir      |-> TRUE,
    tdisk        |-> EmptyMap,
    base         |-> EmptyMap,
    savedMt      |-> 0,
    written      |-> EmptyMap,
    restoredMt   |-> 0 ]

(* ------------------ the engine with two container paths ----------------- *)

\* Inputs from outside in one behaviour of SpecSessions.
MaxSessionInputs == 4

\* The container paths of SpecSessions.
ContainerPaths == {"p.pptx", "q.pptx"}

\* openXMLPath + '.backup'
BackupPath(c) == c \o ".backup"

\* One '.tmp' file name for every container.
TempPathShared(c) == "save.tmp"

\* openXMLPath + '.tmp'
TempPath(c) == c \o ".tmp"

\* The files of the directory of the containers.
DiskNames ==
  ContainerPaths \cup {BackupPath(c) : c \in ContainerPaths}
                 \cup {TempPath(c) : c \in ContainerPaths}

\* Two containers with different payloads, nothing opened.  disk: the files
\* by name; openXMLFiles: the provider's map from path to OpenXMLTempData;
\* opened: openedOpenXMLFiles; autoTimers: the pending autoSave(path) timers;
\* saving: the image of the saveChanges call awaiting its write stream, by
\* path; op (ghost): the step taken last and the path it was called with.
MultiInit ==
  [ disk         |-> [n \in DiskNames |->
                        IF n \in ContainerPaths
                        THEN File([e \in Names |-> IF n = "p.pptx" THEN 0 ELSE MaxByte], 1)
                        ELSE NoFile],
    openXMLFiles |-> EmptyMap,
    opened       |-> {},
    autoTimers   |-> [c \in ContainerPaths |-> 0],
    saving       |-> EmptyMap,
    clock        |-> 1,
    inputs       |-> 0,
    op           |-> [name |-> "init", c |-> ""] ]

\* No formatXML call has been made.
NotFormatting == [pc |-> "idle"]

\* The provider before any URI is made.  issued (ghost): the URIs handed
\* out, each with the arguments of its createUri call; asked (ghost): the
\* issued URI that parseUri was called on last.
NoUris ==
  [pathMappings |-> EmptyMap, issued |-> {}, calls |-> 0, op |-> "init",
   asked |-> [openXMLPath |-> <<>>, filePath |-> <<>>, path |-> <<>>],
   parsed |-> [ok |-> FALSE, openXMLPath |-> <<>>, filePath |-> <<>>]]

\* The one-path engine after construction, before any command.
EngineInit ==
  /\ orig = File([n \in Names |-> 0], 1)
  /\ backup = NoFile
  /\ tmp = NoFile
  /\ objs = <<>>
  /\ cur = 0
  /\ opened = FALSE
  /\ autoTimers = 0
  /\ saves = <<>>
  /\ prompts = <<>>
  /\ extracts = <<>>
  /\ cpu = 0
  /\ clock = 1
  /\ inputs = 0
  /\ closing = 0
  /\ op = Op("init", 0, 0)

Init ==
  /\ EngineInit
  /\ multi = MultiInit
  /\ fmt = NotFormatting
  /\ uris = NoUris

Objs == DOMAIN objs

\* A callback may start: no synchronous code is running.
Idle == cpu = 0

\* The weight of an input.  Opening the container and a writeFile through
\* the provider API count double: each multiplies what the other inputs can
\* reach (a second session object, a stacked auto-save timer).
InputCost(kind) == IF kind \in {"open", "writeFile"} THEN 2 ELSE 1

\* One more input of this kind is allowed.
MayInput(kind) == inputs + InputCost(kind) <= MaxInputs

\* A change of the container file reaches every open source watcher, which
\* (re)arms its debounce timer (setupSourceFileWatcher).
NotifySource(os) ==
  [o \in DOMAIN os |-> IF os[o].srcWatch THEN [os[o] EXCEPT !.sTimer = TRUE] ELSE os[o]]

RemoveAt(s, i) == [k \in 1..(Len(s) - 1) |-> IF k < i THEN s[k] ELSE s[k + 1]]

(* ------------------------------- cleanup ------------------------------- *)

\* cleanupTempFiles on one object: close the source watcher and the temp-file
\* watchers, remove the temp directory.  Timers already pending are not
\* cancelled, and files, modified and tempFiles are kept.
Cleanup(d) ==
  [d EXCEPT !.srcWatch = FALSE,
            !.watchers = {},
            !.tTimers = {},
            !.zTimers = d.zTimers \cup d.tTimers,
            !.tempDir = FALSE,
            !.tdisk = EmptyMap]

\* cleanupTempFiles(originalPath): on openXMLFiles.get(originalPath), if any.
cleanupTempFiles(os) == IF cur # 0 THEN [os EXCEPT ![cur] = Cleanup(os[cur])] ELSE os

(* --------------------- extraction (Open and Reload) -------------------- *)

\* createTempFile: write the payload under tempDir, record the mapping and
\* watch the file.  The file is written before it is watched, so the write
\* raises no event.  fs.mkdirSync(..., {recursive: true}) creates the temp
\* directory when it is missing.
createTempFile(d, n, v) ==
  [d EXCEPT !.tempDir = TRUE,
            !.tdisk = MapSet(d.tdisk, n, v),
            !.tempFiles = d.tempFiles \cup {n},
            !.watchers = d.watchers \cup {n}]

\* readStream.on('end'): store the entry, materialize it when it is text-like.
StoreEntry(d, n, v) ==
  LET d1 == [d EXCEPT !.files = MapSet(d.files, n, v),
                      !.base = MapSet(d.base, n, v)]
  IN IF isXMLFile(n) THEN createTempFile(d1, n, v) ELSE d1

\* The entries of the ZIP that are files, in central-directory order: a
\* directory entry is skipped by the 'entry' handler, which reads on.
FileEntries(img) == SelectSeq(Entries(img), LAMBDA n : ~EndsWithSlash(n))

\* What a caller can observe of an object: entries, tempFiles, modified.
Observable(d) == [files |-> d.files, tempFiles |-> d.tempFiles, modified |-> d.modified]

\* (ghost) No save came before the Reload.
NotSavedFirst == [ex |-> FALSE, zip |-> EmptyMap]

\* A running extractArchiveFiles: the ZIP as it was opened, the next file and
\* (ghost) what the object held when the Open or Reload was called; savedFirst:
\* the image handed to yazl by the save of 'Save First, Then Reload' that
\* this Reload follows.
Extraction(o, kind, img, pre) ==
  [o |-> o, kind |-> kind, zimg |-> img, pos |-> 1, resolved |-> FALSE, pre |-> pre,
   savedFirst |-> NotSavedFirst]

\* What the caller does when the promise of extractArchiveFiles resolves.
\* loadOpenXMLFile sets up the source watcher and installs the session, and
\* openOpenXMLFile then records the path as opened; reloadFromSource only
\* fires a change event.
AfterExtract(x, d) ==
  IF x.kind = "open" THEN [d EXCEPT !.srcWatch = TRUE] ELSE d

\* checkComplete() resolves when pendingReads = 0 and processedFiles =
\* totalFiles.  Entries are read one at a time (lazyEntries), so this holds as
\* soon as the first file has been processed, and at the 'end' event.
ResolvesNow(x, isFile, atEnd) == ~x.resolved /\ (isFile \/ atEnd)

\* The 'entry' event of the next file with its read stream; after the last
\* file, the 'end' event follows.  failed: the read stream of this entry
\* errors (the entry is skipped and counted as processed).
ExtractEvent(e, failed) ==
  LET x == extracts[e]
      ents == FileEntries(x.zimg)
      isFile == x.pos <= Len(ents)
      n == ents[x.pos]
      atEnd == x.pos >= Len(ents)
      d == objs[x.o]
      d1 == IF isFile /\ ~failed THEN StoreEntry(d, n, x.zimg[n]) ELSE d
      res == ResolvesNow(x, isFile, atEnd)
      d2 == IF res THEN AfterExtract(x, d1) ELSE d1
  IN /\ failed => isFile
     /\ objs' = [objs EXCEPT ![x.o] = d2]
     /\ cur' = IF res /\ x.kind = "open" THEN x.o ELSE cur
     /\ opened' = IF res /\ x.kind = "open" THEN TRUE ELSE opened
     /\ extracts' = IF atEnd THEN RemoveAt(extracts, e)
                    ELSE [extracts EXCEPT ![e].pos = x.pos + 1,
                                          ![e].resolved = x.resolved \/ res]

extractArchiveFiles(e) ==
  /\ UNCHANGED <<multi, fmt, uris>>
  /\ UNCHANGED closing
  /\ Idle
  /\ ExtractEvent(e, FALSE)
  /\ op' = Op("extract", extracts[e].o, e)
  /\ UNCHANGED <<orig, backup, tmp, autoTimers, saves, prompts, cpu, clock, inputs>>

ReadStreamError(e) ==
  /\ UNCHANGED <<multi, fmt, uris>>
  /\ UNCHANGED closing
  /\ Idle /\ MayInput("readError")
  /\ ExtractEvent(e, TRUE)
  /\ inputs' = inputs + InputCost("readError")
  /\ op' = Op("readError", extracts[e].o, e)
  /\ UNCHANGED <<orig, backup, tmp, autoTimers, saves, prompts, cpu, clock>>

\* yauzl.open fails (the container is not a readable ZIP when it is opened),
\* or the zipfile emits 'error' later: the promise is rejected, which has no
\* effect once it is resolved, and no further entry is read.  Nothing that
\* was cleared or stored is undone; a rejected Open installs no session.
ArchiveError(e) ==
  /\ UNCHANGED <<multi, fmt, uris>>
  /\ Idle /\ MayInput("archiveError")
  /\ extracts' = RemoveAt(extracts, e)
  /\ inputs' = inputs + InputCost("archiveError")
  /\ op' = Op(IF extracts[e].resolved THEN "archiveErrorLate" ELSE "archiveError",
              extracts[e].o, e)
  /\ UNCHANGED <<orig, backup, tmp, objs, cur, opened, autoTimers, saves, prompts,
                 cpu, clock, closing>>

\* openOpenXMLFile -> loadOpenXMLFile, up to the await of extractArchiveFiles.
\* A path still in openXMLFiles is cleaned up and deleted from the map first.
\* fs.statSync throws when the container is missing; openOpenXMLFile reports it.
loadOpenXMLFile ==
  /\ UNCHANGED <<multi, fmt, uris>>
  /\ UNCHANGED closing
  /\ Idle /\ MayInput("open")
  /\ ~opened
  /\ inputs' = inputs + InputCost("open")
  /\ cur' = 0
  /\ IF orig.ex
     THEN /\ objs' = Append(cleanupTempFiles(objs), NewData(orig.mt))
          /\ extracts' = Append(extracts, Extraction(Len(objs) + 1, "open", orig.img,
                                                 Observable(NewData(orig.mt))))
     ELSE /\ objs' = cleanupTempFiles(objs)
          /\ UNCHANGED extracts
  /\ op' = Op("open", Len(objs) + 1, 0)
  /\ UNCHANGED <<orig, backup, tmp, opened, autoTimers, saves, prompts, cpu, clock>>

(* ------------------------------ temp files ----------------------------- *)

\* A debounce that stacks: the timer already pending is left to fire as well.
ArmDebounceStacks(d, p) ==
  [d EXCEPT !.tTimers = @ \cup {p},
            !.zTimers = IF p \in d.tTimers THEN @ \cup {p} ELSE @]

\* The fs.watch callback of the temp file of p: clearTimeout(timeoutId), then
\* timeoutId = setTimeout(...): one timer of this watcher is pending.
ArmDebounce(d, p) == [d EXCEPT !.tTimers = @ \cup {p}]

\* The debounce timers pending for the temp file of p.
PendingDebounce(d, p) ==
  (IF p \in d.tTimers THEN 1 ELSE 0) + (IF p \in d.zTimers THEN 1 ELSE 0)

\* Another program writes a materialized temp file; its watcher, when open,
\* is notified.
TempFileEdit(o, p, b) ==
  /\ UNCHANGED <<multi, fmt, uris>>
  /\ UNCHANGED closing
  /\ Idle /\ MayInput("tempEdit")
  /\ p \in DOMAIN objs[o].tdisk
  /\ LET d == [objs[o] EXCEPT !.tdisk = MapSet(@, p, b), !.written = MapDel(@, {p})]
     IN objs' = [objs EXCEPT ![o] = IF p \in d.watchers THEN ArmDebounce(d, p) ELSE d]
  /\ inputs' = inputs + InputCost("tempEdit")
  /\ op' = Op("tempEdit", o, EntryNo(p))
  /\ UNCHANGED <<orig, backup, tmp, cur, opened, autoTimers, saves, prompts,
                 extracts, cpu, clock>>

\* A sync-back without the comparison of the contents.
SyncBackAppliesUnlessOld(d, p, recent) ==
  /\ p \in d.tempFiles
  /\ p \in DOMAIN d.tdisk
  /\ recent

\* syncTempFileBack: whether the temp file of p is folded into the entry.
\* recent: now - mtime <= fileAgeThresholdMs when the callback runs.
SyncBackApplies(d, p, recent) ==
  /\ p \in d.tempFiles
  /\ p \in DOMAIN d.tdisk
  /\ recent
  /\ ~(p \in DOMAIN d.files /\ d.files[p] = d.tdisk[p])

\* A sync-back that stores the content without marking the entry modified.
syncTempFileBackUnmarked(d, p, recent) ==
  IF SyncBackApplies(d, p, recent)
  THEN [d EXCEPT !.files = MapSet(d.files, p, d.tdisk[p])]
  ELSE d

\* syncTempFileBack: the object afterwards.
syncTempFileBack(d, p, recent) ==
  IF SyncBackApplies(d, p, recent)
  THEN [d EXCEPT !.files = MapSet(d.files, p, d.tdisk[p]),
                 !.modified = d.modified \cup {p}]
  ELSE d

\* A debounce timer of a temp file fires: the one of its open watcher, or
\* (orphan) one left pending by a watcher closed since.
TempDebounceFires(o, p, orphan, recent) ==
  /\ UNCHANGED <<multi, fmt, uris>>
  /\ UNCHANGED closing
  /\ Idle
  /\ IF orphan THEN p \in objs[o].zTimers ELSE p \in objs[o].tTimers
  /\ objs' = [objs EXCEPT ![o] =
                 IF orphan THEN [syncTempFileBack(objs[o], p, recent) EXCEPT !.zTimers = @ \ {p}]
                 ELSE [syncTempFileBack(objs[o], p, recent) EXCEPT !.tTimers = @ \ {p}]]
  /\ autoTimers' = IF SyncBackApplies(objs[o], p, recent) THEN autoTimers + 1 ELSE autoTimers
  /\ op' = Op("syncBack", o, EntryNo(p))
  /\ UNCHANGED <<orig, backup, tmp, cur, opened, saves, prompts, extracts, cpu,
                 clock, inputs>>

\* writeFile (the FileSystemProvider API): parseUri resolves the session by
\* path; the entry is stored, marked modified, and an auto-save is scheduled.
writeFile(p, b) ==
  /\ UNCHANGED <<multi, fmt, uris>>
  /\ UNCHANGED closing
  /\ Idle /\ MayInput("writeFile")
  /\ cur # 0
  /\ objs' = [objs EXCEPT ![cur].files = MapSet(@, p, b),
                          ![cur].modified = @ \cup {p},
                          ![cur].written = MapSet(@, p, b)]
  /\ autoTimers' = autoTimers + 1
  /\ inputs' = inputs + InputCost("writeFile")
  /\ op' = Op("writeFile", cur, 0)
  /\ UNCHANGED <<orig, backup, tmp, cur, opened, saves, prompts, extracts, cpu, clock>>

(* -------------------------------- Reload ------------------------------- *)

\* A reload that forgets to clear modified.
ClearForReloadKeepsModified(d, mt) ==
  [d EXCEPT !.lastModified = mt,
            !.files = EmptyMap,
            !.tdisk = MapDel(d.tdisk, d.tempFiles),
            !.tempFiles = {},
            !.watchers = {},
            !.tTimers = {},
            !.zTimers = d.zTimers \cup d.tTimers,
            !.base = EmptyMap,
            !.written = EmptyMap]

\* A reload that forgets to clear tempFiles.
ClearForReloadKeepsTempFiles(d, mt) ==
  [d EXCEPT !.lastModified = mt,
            !.files = EmptyMap,
            !.modified = {},
            !.tdisk = MapDel(d.tdisk, d.tempFiles),
            !.watchers = {},
            !.tTimers = {},
            !.zTimers = d.zTimers \cup d.tTimers,
            !.base = EmptyMap,
            !.written = EmptyMap]

\* reloadFromSource up to its await: take the container's modification time,
\* clear the maps, delete the temp files, close the temp-file watchers.  A
\* closed watcher's pending debounce timer is not cancelled.
ClearForReload(d, mt) ==
  [d EXCEPT !.lastModified = mt,
            !.files = EmptyMap,
            !.modified = {},
            !.tdisk = MapDel(d.tdisk, d.tempFiles),
            !.tempFiles = {},
            !.watchers = {},
            !.tTimers = {},
            !.zTimers = d.zTimers \cup d.tTimers,
            !.base = EmptyMap,
            !.written = EmptyMap]

\* reloadFromSource(objs[o]) called with the container file f and the objects
\* os: the objects and extractions afterwards.  o = 0: no reload is asked for.
\* fs.statSync throws when f is missing, before anything is cleared.
reloadFromSource(os, o, f) ==
  IF o # 0 /\ f.ex
  THEN [objs |-> [os EXCEPT ![o] = ClearForReload(os[o], f.mt)],
        extracts |-> Append(extracts, Extraction(o, "reload", f.img, Observable(os[o])))]
  ELSE [objs |-> os, extracts |-> extracts]

(* --------------------------------- Save -------------------------------- *)

\* syncAllTempFiles: the materialized entries whose temp file differs.
Diverged(d) ==
  {p \in d.tempFiles : p \in DOMAIN d.tdisk /\ p \in DOMAIN d.files /\ d.files[p] # d.tdisk[p]}

\* A force-flush that folds nothing.
syncAllTempFilesSkips(d) == d

syncAllTempFiles(d) ==
  [d EXCEPT !.files = [x \in DOMAIN d.files |-> IF x \in Diverged(d) THEN d.tdisk[x] ELSE d.files[x]],
            !.modified = d.modified \cup Diverged(d)]

\* What the caller of saveChanges does once it has returned: closeOpenXMLFile
\* cleans up, handleSourceFileChange reloads objs[then] (then # 0), the others
\* do nothing.  f is the container file at that moment.
AfterSaveReturns(os, caller, then, f) ==
  IF caller = "close" THEN [objs |-> cleanupTempFiles(os), extracts |-> extracts]
  ELSE reloadFromSource(os, then, f)

\* A saveChanges that writes even when nothing is modified.
SaveOutcomeAlwaysWrites ==
  IF cur = 0 THEN "nodata"
  ELSE IF ~orig.ex THEN "threw"
  ELSE "started"

\* How saveChanges leaves its first synchronous part.
SaveOutcome ==
  IF cur = 0 THEN "nodata"
  ELSE IF syncAllTempFiles(objs[cur]).modified = {} THEN "nochange"
  ELSE IF ~orig.ex THEN "threw"
  ELSE "started"

\* A saveChanges call awaiting its write stream: the object, the image handed
\* to yazl, the container's content when it began, its caller and the object
\* its caller reloads afterwards; (ghost) loaded: no extraction into the
\* object was running; mod: the modified set after the force-flush.
SaveCall(o, zip, pre, caller, then) ==
  [o |-> o, zip |-> zip, pre |-> pre, caller |-> caller, then |-> then, pc |-> "writing",
   loaded |-> \A e \in DOMAIN extracts : extracts[e].o # o,
   mod |-> syncAllTempFiles(objs[o]).modified]

\* saveChanges up to the await of the write stream: force-flush, return when
\* nothing is modified, copy the backup, snapshot every entry into the ZIP and
\* open the write stream on the .tmp file.  When nothing is to be saved the
\* call returns at once and the caller goes on (AfterSaveReturns).
saveChanges(caller, then) ==
  LET out == SaveOutcome
      d == syncAllTempFiles(objs[cur])
      os1 == IF cur # 0 THEN [objs EXCEPT ![cur] = d] ELSE objs
      r == IF out \in {"nodata", "nochange"}
           THEN AfterSaveReturns(os1, caller, then, orig)
           ELSE [objs |-> os1, extracts |-> extracts]
  IN /\ objs' = r.objs
     /\ extracts' = r.extracts
     /\ IF out = "started"
        THEN /\ backup' = File(orig.img, 0)
             /\ tmp' = File(d.files, clock + 1)
             /\ clock' = clock + 1
             /\ saves' = Append(saves, SaveCall(cur, d.files, orig.img, caller, then))
        ELSE UNCHANGED <<backup, tmp, clock, saves>>

\* The auto-save timer fires: autoSave -> saveChanges.
autoSave ==
  /\ UNCHANGED <<multi, fmt, uris>>
  /\ UNCHANGED closing
  /\ Idle
  /\ autoTimers > 0
  /\ autoTimers' = autoTimers - 1
  /\ saveChanges("timer", 0)
  /\ op' = Op("saveBegin", cur, 0)
  /\ UNCHANGED <<orig, cur, opened, prompts, cpu, inputs>>

\* The save command: saveAllChanges -> saveChanges for the opened path.
saveAllChanges ==
  /\ UNCHANGED <<multi, fmt, uris>>
  /\ UNCHANGED closing
  /\ Idle /\ MayInput("save")
  /\ opened
  /\ saveChanges("manual", 0)
  /\ inputs' = inputs + InputCost("save")
  /\ op' = Op("saveBegin", cur, 0)
  /\ UNCHANGED <<orig, cur, opened, autoTimers, prompts, cpu>>

\* The catch block of saveChanges, entered with the container file f: restore
\* from the backup when it exists, delete the backup, rethrow.  The caller's
\* continuation is abandoned.
SaveThrows(i, f, name) ==
  /\ orig' = IF backup.ex THEN File(backup.img, clock + 1) ELSE f
  /\ clock' = IF backup.ex THEN clock + 1 ELSE clock
  /\ backup' = NoFile
  /\ saves' = RemoveAt(saves, i)
  /\ cpu' = 0
  /\ LET os == IF backup.ex
               THEN [o \in DOMAIN objs |-> [objs[o] EXCEPT !.restoredMt = clock + 1]]
               ELSE objs
     IN objs' = IF orig' # orig THEN NotifySource(os) ELSE os
  /\ op' = Op(name, saves[i].o, i)
  /\ UNCHANGED <<tmp, cur, opened, autoTimers, prompts, extracts>>

\* The write stream errors.
WriteStreamError(i) ==
  /\ UNCHANGED <<multi, fmt, uris>>
  /\ UNCHANGED closing
  /\ Idle /\ MayInput("writeFailed")
  /\ saves[i].pc = "writing"
  /\ inputs' = inputs + InputCost("writeFailed")
  /\ SaveThrows(i, orig, "writeFailed")

\* The write stream closes; fs.unlinkSync(openXMLPath).
SaveUnlink(i) ==
  /\ UNCHANGED <<multi, fmt, uris>>
  /\ UNCHANGED closing
  /\ Idle
  /\ saves[i].pc = "writing"
  /\ UNCHANGED inputs
  /\ IF orig.ex
     THEN /\ orig' = NoFile
          /\ saves' = [saves EXCEPT ![i].pc = "unlinked"]
          /\ cpu' = i
          /\ objs' = NotifySource(objs)
          /\ op' = Op("unlink", saves[i].o, i)
          /\ UNCHANGED <<backup, tmp, cur, opened, autoTimers, prompts, extracts, clock>>
     ELSE SaveThrows(i, orig, "unlinkFailed")

\* fs.unlinkSync(openXMLPath) throws although the file exists (it is locked).
UnlinkFails(i) ==
  /\ UNCHANGED <<multi, fmt, uris>>
  /\ UNCHANGED closing
  /\ Idle /\ MayInput("unlinkFailed")
  /\ saves[i].pc = "writing"
  /\ orig.ex
  /\ inputs' = inputs + InputCost("unlinkFailed")
  /\ SaveThrows(i, orig, "unlinkFailed")

\* The object of a save after the rename: lastModified from the new file's
\* stat and, when the backup could be deleted, modified cleared.
AfterSave(d, s, mt, backupDeleted) ==
  LET stored == {p \in DOMAIN d.written : p \in DOMAIN s.zip /\ s.zip[p] = d.written[p]}
  IN IF backupDeleted
     THEN [d EXCEPT !.lastModified = mt, !.modified = {}, !.base = s.zip, !.savedMt = mt,
                    !.written = MapDel(@, stored)]
     ELSE [d EXCEPT !.lastModified = mt, !.base = s.zip, !.savedMt = mt,
                    !.written = MapDel(@, stored)]

\* fs.renameSync(tempPath, openXMLPath) and the rest of saveChanges: stat,
\* delete the backup, clear modified; then the caller's continuation.  When
\* the caller closes the session, the watchers are closed before the event of
\* the rename is delivered.
SaveRename(i) ==
  /\ UNCHANGED <<multi, fmt, uris>>
  /\ UNCHANGED closing
  /\ cpu = i
  /\ UNCHANGED inputs
  /\ IF tmp.ex
     THEN LET s == saves[i]
              f == File(tmp.img, tmp.mt)
              os0 == [objs EXCEPT ![s.o] = AfterSave(objs[s.o], s, tmp.mt, backup.ex)]
              os1 == IF backup.ex /\ s.caller = "close" THEN NotifySource(cleanupTempFiles(os0))
                     ELSE NotifySource(os0)
              r == IF backup.ex THEN AfterSaveReturns(os1, s.caller, s.then, f)
                   ELSE [objs |-> os1, extracts |-> extracts]
          IN /\ orig' = f
             /\ tmp' = NoFile
             /\ backup' = NoFile
             /\ objs' = r.objs
             /\ extracts' = IF Len(r.extracts) > Len(extracts)
                            THEN [r.extracts EXCEPT ![Len(r.extracts)].savedFirst =
                                    [ex |-> TRUE, zip |-> s.zip]]
                            ELSE r.extracts
             /\ saves' = RemoveAt(saves, i)
             /\ cpu' = 0
             /\ opened' = IF backup.ex /\ s.caller = "close" THEN FALSE ELSE opened
             /\ op' = Op(IF backup.ex THEN "saved" ELSE "cleanupFailed", s.o, i)
             /\ UNCHANGED <<cur, autoTimers, prompts, clock>>
     ELSE SaveThrows(i, orig, "renameFailed")

\* fs.renameSync throws although the .tmp file exists.
RenameFails(i) ==
  /\ UNCHANGED <<multi, fmt, uris>>
  /\ UNCHANGED closing
  /\ cpu = i /\ MayInput("renameFailed")
  /\ tmp.ex
  /\ inputs' = inputs + InputCost("renameFailed")
  /\ SaveThrows(i, orig, "renameFailed")

(* ------------------- source watcher and conflict policy ----------------- *)

\* Another program rewrites one entry of the container in place.
ExternalEdit(p, b) ==
  /\ UNCHANGED <<multi, fmt, uris>>
  /\ UNCHANGED closing
  /\ Idle /\ MayInput("externalEdit")
  /\ orig.ex
  /\ p \in DOMAIN orig.img /\ ~EndsWithSlash(p)
  /\ orig.img[p] # b
  /\ orig' = File(MapSet(orig.img, p, b), clock + 1)
  /\ clock' = clock + 1
  /\ objs' = NotifySource(objs)
  /\ inputs' = inputs + InputCost("externalEdit")
  /\ op' = Op("externalEdit", 0, 0)
  /\ UNCHANGED <<backup, tmp, cur, opened, autoTimers, saves, prompts, extracts, cpu>>

\* A handler that asks whenever the container is newer.
SourceVerdictAlwaysAsks(f, d) ==
  IF ~f.ex THEN "deleted"
  ELSE IF f.mt <= d.lastModified THEN "ignore"
  ELSE "prompt"

\* What handleSourceFileChange does with the container file f as it finds it.
SourceVerdictOn(f, d) ==
  IF ~f.ex THEN "deleted"
  ELSE IF f.mt <= d.lastModified THEN "ignore"
  ELSE IF d.modified # {} THEN "prompt"
  ELSE "reload"

\* The verdict on the container of the one-path engine.
SourceVerdict(d) == SourceVerdictOn(orig, d)

\* A handleSourceFileChange call awaiting showWarningMessage: currentModified
\* as read before the prompt and (ghost) the state when the prompt was raised.
Prompt(o, d) ==
  [o |-> o, currentModified |-> orig.mt,
   snap |-> [files |-> d.files, modified |-> d.modified, tempFiles |-> d.tempFiles,
             lastModified |-> d.lastModified, orig |-> orig]]

\* The debounce timer of the source watcher fires: handleSourceFileChange up
\* to its first await.
handleSourceFileChange(o) ==
  /\ UNCHANGED <<multi, fmt, uris>>
  /\ UNCHANGED closing
  /\ Idle
  /\ objs[o].sTimer
  /\ LET d == [objs[o] EXCEPT !.sTimer = FALSE]
         os1 == [objs EXCEPT ![o] = d]
         v == SourceVerdict(d)
         r == IF v = "reload" THEN reloadFromSource(os1, o, orig)
              ELSE [objs |-> os1, extracts |-> extracts]
     IN /\ objs' = r.objs
        /\ extracts' = r.extracts
        /\ prompts' = IF v = "prompt" THEN Append(prompts, Prompt(o, d)) ELSE prompts
        /\ op' = Op(v, o, 0)
  /\ UNCHANGED <<orig, backup, tmp, cur, opened, autoTimers, saves, cpu, clock, inputs>>

\* 'Reload (Lose Changes)'
ChooseReload(h) ==
  /\ UNCHANGED <<multi, fmt, uris>>
  /\ UNCHANGED closing
  /\ Idle
  /\ LET r == reloadFromSource(objs, prompts[h].o, orig)
     IN objs' = r.objs /\ extracts' = r.extracts
  /\ prompts' = RemoveAt(prompts, h)
  /\ op' = Op("chooseReload", prompts[h].o, h)
  /\ UNCHANGED <<orig, backup, tmp, cur, opened, autoTimers, saves, cpu, clock, inputs>>

\* A 'Keep Changes' that also marks the session clean.
KeepChangesClearsModified(d, currentModified) ==
  [d EXCEPT !.lastModified = currentModified, !.modified = {}]

\* The object after 'Keep Changes'.
KeepChanges(d, currentModified) == [d EXCEPT !.lastModified = currentModified]

\* 'Keep Changes'
ChooseKeep(h) ==
  /\ UNCHANGED <<multi, fmt, uris>>
  /\ UNCHANGED closing
  /\ Idle
  /\ objs' = [objs EXCEPT ![prompts[h].o] = KeepChanges(@, prompts[h].currentModified)]
  /\ prompts' = RemoveAt(prompts, h)
  /\ op' = Op("keep", prompts[h].o, h)
  /\ UNCHANGED <<orig, backup, tmp, cur, opened, autoTimers, saves, extracts, cpu,
                 clock, inputs>>

\* 'Save First, Then Reload': saveChanges(originalPath), then reloadFromSource.
ChooseSaveFirst(h) ==
  /\ UNCHANGED <<multi, fmt, uris>>
  /\ UNCHANGED closing
  /\ Idle
  /\ saveChanges("conflict", prompts[h].o)
  /\ prompts' = RemoveAt(prompts, h)
  /\ op' = Op("saveFirst", prompts[h].o, h)
  /\ UNCHANGED <<orig, cur, opened, autoTimers, cpu, inputs>>

\* The prompt is dismissed: the default branch of the switch.
Decline(h) ==
  /\ UNCHANGED <<multi, fmt, uris>>
  /\ UNCHANGED closing
  /\ Idle
  /\ prompts' = RemoveAt(prompts, h)
  /\ op' = Op("decline", prompts[h].o, h)
  /\ UNCHANGED <<orig, backup, tmp, objs, cur, opened, autoTimers, saves, extracts,
                 cpu, clock, inputs>>

(* --------------------------------- Close ------------------------------- *)

\* hasUnsavedChanges(originalPath)
hasUnsavedChanges == cur # 0 /\ objs[cur].modified # {}

\* The close command on an opened path: closeOpenXMLFile up to its first
\* await.  With unsaved changes the user is asked; without, the session is
\* cleaned up and the path is removed from openedOpenXMLFiles.
closeOpenXMLFile ==
  /\ UNCHANGED <<multi, fmt, uris>>
  /\ Idle /\ MayInput("close")
  /\ opened
  /\ IF hasUnsavedChanges
     THEN /\ closing' = closing + 1
          /\ UNCHANGED <<objs, opened>>
     ELSE /\ objs' = cleanupTempFiles(objs)
          /\ opened' = FALSE
          /\ UNCHANGED closing
  /\ inputs' = inputs + InputCost("close")
  /\ op' = Op(IF hasUnsavedChanges THEN "closeAsked" ELSE "closed", cur, 0)
  /\ UNCHANGED <<orig, backup, tmp, cur, autoTimers, saves, prompts, extracts, cpu, clock>>

\* 'Save and Close': saveChanges, then the cleanup.
CloseSaveFirst ==
  /\ UNCHANGED <<multi, fmt, uris>>
  /\ Idle
  /\ closing > 0
  /\ closing' = closing - 1
  /\ saveChanges("close", 0)
  /\ opened' = IF SaveOutcome \in {"nodata", "nochange"} THEN FALSE ELSE opened
  /\ op' = Op("closeSaveFirst", cur, 0)
  /\ UNCHANGED <<orig, cur, autoTimers, prompts, cpu, inputs>>

\* 'Close without Saving', or the question is dismissed.
CloseWithoutSaving ==
  /\ UNCHANGED <<multi, fmt, uris>>
  /\ Idle
  /\ closing > 0
  /\ closing' = closing - 1
  /\ objs' = cleanupTempFiles(objs)
  /\ opened' = FALSE
  /\ op' = Op("closed", cur, 0)
  /\ UNCHANGED <<orig, backup, tmp, cur, autoTimers, saves, prompts, extracts, cpu,
                 clock, inputs>>

\* 'Cancel'
CloseCancel ==
  /\ UNCHANGED <<multi, fmt, uris>>
  /\ Idle
  /\ closing > 0
  /\ closing' = closing - 1
  /\ op' = Op("closeCancel", cur, 0)
  /\ UNCHANGED <<orig, backup, tmp, objs, cur, opened, autoTimers, saves, prompts,
                 extracts, cpu, clock, inputs>>

(* ------------- two container paths: the sessions' operations ------------ *)

\* In SpecSessions the provider holds a session for each of two container
\* paths.  The files of both containers share one directory, and the sessions
\* one openXMLFiles map.  An extraction is taken as one step, a path is
\* opened once, and one saveChanges call per path is in flight at a time.

\* openXMLFiles.get(c)
Session(c) == multi.openXMLFiles[c]

\* extractArchiveFiles, every entry read: the files of the image from the
\* k-th on are stored.
RECURSIVE ExtractFrom(_, _, _)
ExtractFrom(d, img, k) ==
  IF k > Len(FileEntries(img)) THEN d
  ELSE ExtractFrom(StoreEntry(d, FileEntries(img)[k], img[FileEntries(img)[k]]), img, k + 1)

\* A step of SpecSessions to the state m, made by a call with the path c.
MultiStep(name, c, m) ==
  /\ multi' = [m EXCEPT !.op = [name |-> name, c |-> c]]
  /\ UNCHANGED <<engineVars, fmt, uris>>

\* One more input from outside is allowed.
MayInputSession == multi.inputs < MaxSessionInputs

\* openOpenXMLFile(c) -> loadOpenXMLFile(c).
OpenContainer(c) ==
  /\ MayInputSession
  /\ c \notin DOMAIN multi.openXMLFiles
  /\ multi.disk[c].ex
  /\ LET f == multi.disk[c]
         d == [ExtractFrom(NewData(f.mt), f.img, 1) EXCEPT !.srcWatch = TRUE]
     IN MultiStep("open", c, [multi EXCEPT !.openXMLFiles = MapSet(@, c, d),
                                           !.opened = @ \cup {c},
                                           !.inputs = @ + 1])

\* Another program writes a temp file of the session of c.
EditTempFile(c, p, b) ==
  /\ MayInputSession
  /\ c \in DOMAIN multi.openXMLFiles
  /\ p \in DOMAIN Session(c).tdisk
  /\ LET d == [Session(c) EXCEPT !.tdisk = MapSet(@, p, b)]
         d1 == IF p \in d.watchers THEN ArmDebounce(d, p) ELSE d
     IN MultiStep("tempEdit", c, [multi EXCEPT !.openXMLFiles[c] = d1, !.inputs = @ + 1])

\* A debounce timer of a temp file of the session of c fires: syncTempFileBack.
SyncBack(c, p, orphan, recent) ==
  /\ c \in DOMAIN multi.openXMLFiles
  /\ IF orphan THEN p \in Session(c).zTimers ELSE p \in Session(c).tTimers
  /\ LET d == syncTempFileBack(Session(c), p, recent)
         d1 == IF orphan THEN [d EXCEPT !.zTimers = @ \ {p}] ELSE [d EXCEPT !.tTimers = @ \ {p}]
         n == IF SyncBackApplies(Session(c), p, recent) THEN 1 ELSE 0
     IN MultiStep("syncBack", c, [multi EXCEPT !.openXMLFiles[c] = d1,
                                               !.autoTimers[c] = @ + n])

\* saveChanges(c) up to the await of its write stream, called by the
\* auto-save timer of c or by the save command.
SaveChangesOf(c, byTimer) ==
  /\ c \in DOMAIN multi.openXMLFiles
  /\ c \notin DOMAIN multi.saving
  /\ IF byTimer THEN multi.autoTimers[c] > 0 ELSE MayInputSession /\ c \in multi.opened
  /\ LET d == syncAllTempFiles(Session(c))
         m1 == [multi EXCEPT !.openXMLFiles[c] = d,
                             !.autoTimers[c] = IF byTimer THEN @ - 1 ELSE @,
                             !.inputs = IF byTimer THEN @ ELSE @ + 1]
         m2 == [m1 EXCEPT !.disk[BackupPath(c)] = File(multi.disk[c].img, 0),
                          !.disk[TempPath(c)] = File(d.files, multi.clock + 1),
                          !.clock = @ + 1,
                          !.saving = MapSet(@, c, d.files)]
     IN MultiStep("saveBegin", c, IF d.modified # {} /\ multi.disk[c].ex THEN m2 ELSE m1)

\* The write stream of the saveChanges call of c closes: unlink, rename,
\* stat, delete the backup, clear modified; the catch block restores the
\* container from the backup when the rename throws.
SaveFinish(c) ==
  /\ c \in DOMAIN multi.saving
  /\ LET t == multi.disk[TempPath(c)]
         b == multi.disk[BackupPath(c)]
         d == AfterSave(Session(c), [zip |-> multi.saving[c]], t.mt, TRUE)
         w == [sTimer |-> Session(c).srcWatch \/ Session(c).sTimer]
         saved == [multi EXCEPT !.disk[c] = File(t.img, t.mt),
                                !.disk[TempPath(c)] = NoFile,
                                !.disk[BackupPath(c)] = NoFile,
                                !.openXMLFiles[c] = [d EXCEPT !.sTimer = w.sTimer],
                                !.saving = MapDel(@, {c})]
         threw == [multi EXCEPT !.disk[c] = IF b.ex THEN File(b.img, multi.clock + 1) ELSE NoFile,
                                !.disk[BackupPath(c)] = NoFile,
                                !.clock = @ + 1,
                                !.openXMLFiles[c].sTimer = w.sTimer,
                                !.saving = MapDel(@, {c})]
     IN IF t.ex THEN MultiStep("saved", c, saved) ELSE MultiStep("renameFailed", c, threw)

\* Another program rewrites one entry of the container c in place; the
\* source watcher of the session of c is notified.
ExternalChange(c, p, b) ==
  /\ MayInputSession
  /\ multi.disk[c].ex
  /\ p \in DOMAIN multi.disk[c].img /\ ~EndsWithSlash(p)
  /\ multi.disk[c].img[p] # b
  /\ LET m1 == [multi EXCEPT !.disk[c] = File(MapSet(@.img, p, b), multi.clock + 1),
                             !.clock = @ + 1,
                             !.inputs = @ + 1]
     IN MultiStep("externalEdit", c,
                  IF c \in DOMAIN multi.openXMLFiles /\ Session(c).srcWatch
                  THEN [m1 EXCEPT !.openXMLFiles[c].sTimer = TRUE] ELSE m1)

\* The user's answers to the conflict prompt that are taken here ('Save
\* First, Then Reload' is a saveChanges call followed by a reload).
ConflictAnswers == {"Reload (Lose Changes)", "Keep Changes", "dismissed"}

\* The debounce timer of the source watcher of c fires:
\* handleSourceFileChange with the user's answer to its prompt, if it asks.
SourceChange(c, answer) ==
  /\ c \in DOMAIN multi.openXMLFiles
  /\ Session(c).sTimer
  /\ LET f == multi.disk[c]
         d == [Session(c) EXCEPT !.sTimer = FALSE]
         v == SourceVerdictOn(f, d)
         reloads == v = "reload" \/ (v = "prompt" /\ answer = "Reload (Lose Changes)")
         d1 == IF reloads THEN ExtractFrom(ClearForReload(d, f.mt), f.img, 1)
               ELSE IF v = "prompt" /\ answer = "Keep Changes" THEN KeepChanges(d, f.mt)
               ELSE d
     IN /\ v # "prompt" => answer = "dismissed"
        /\ MultiStep(IF reloads THEN "reload" ELSE v, c, [multi EXCEPT !.openXMLFiles[c] = d1])

\* closeOpenXMLFile(c) with the user's answer to its question, if it asks
\* ('Save and Close' is a saveChanges call followed by this cleanup).
CloseContainer(c, cancel) ==
  /\ MayInputSession
  /\ c \in multi.opened
  /\ cancel => Session(c).modified # {}
  /\ MultiStep(IF cancel THEN "closeCancel" ELSE "closed", c,
               IF cancel THEN [multi EXCEPT !.inputs = @ + 1]
               ELSE [multi EXCEPT !.openXMLFiles[c] = Cleanup(@),
                                  !.opened = @ \ {c},
                                  !.inputs = @ + 1])

(* ------------------------------ XMLFormatter ---------------------------- *)

\* A string is the sequence of its characters; an offset counts from 0, as
\* in the source.

\* The longest input, in pieces of markup or text (see Pieces).
MaxPieces == 4

\* The pieces an input is put together from: tags, text, whitespace, the
\* delimiters of CDATA sections and comments, the bare characters < and >,
\* a > and a < with whitespace between them, and an element with text only.
Pieces ==
  { <<"<", "a", ">">>,
    <<"<", "/", "a", ">">>,
    <<"<", "b", "/", ">">>,
    <<"t">>,
    <<" ">>,
    <<"<", "!", "[", "C", "D", "A", "T", "A", "[">>,
    <<"]", "]", ">">>,
    <<"<", "!", "-", "-">>,
    <<"-", "-", ">">>,
    <<"<">>,
    <<">">>,
    <<">", " ", "<">>,
    <<"<", "a", ">", "t", "<", "/", "a", ">">> }

RECURSIVE InputsOf(_)
\* The strings of at most n pieces.
InputsOf(n) ==
  IF n = 0 THEN {<<>>}
  ELSE InputsOf(n - 1) \cup {x \o p : x \in InputsOf(n - 1), p \in Pieces}

\* The inputs of formatXML that are tried.
Inputs == InputsOf(MaxPieces)

\* \s
IsSpace(ch) == ch \in {" ", "\n"}

RECURSIVE TrimStart(_)
TrimStart(s) == IF s # <<>> /\ IsSpace(Head(s)) THEN TrimStart(Tail(s)) ELSE s

RECURSIVE TrimEnd(_)
\* String.prototype.trimEnd
TrimEnd(s) ==
  IF s # <<>> /\ IsSpace(s[Len(s)]) THEN TrimEnd(SubSeq(s, 1, Len(s) - 1)) ELSE s

\* String.prototype.trim
Trim(s) == TrimEnd(TrimStart(s))

\* xml.substring(a, b)
Substring(s, a, b) == SubSeq(s, a + 1, IF b < Len(s) THEN b ELSE Len(s))

\* xml.substring(i, i + pat.length) === pat
StartsWithAt(s, pat, i) == Substring(s, i, i + Len(pat)) = pat

\* xml.indexOf(pat, from)
IndexOf(s, pat, from) ==
  LET hits == {k \in from..(Len(s) - Len(pat)) : StartsWithAt(s, pat, k)}
  IN IF hits = {} THEN -1 ELSE CHOOSE k \in hits : \A j \in hits : k <= j

RECURSIVE SkipSpaces(_, _)
\* The offset of the first character from j on that is no whitespace, or the
\* length of the string.
SkipSpaces(s, j) ==
  IF j < Len(s) /\ IsSpace(s[j + 1]) THEN SkipSpaces(s, j + 1) ELSE j

RECURSIVE CollapseFrom(_, _)
\* formatted.replace(/>\s*</g, '><'), from the offset i on.
CollapseFrom(s, i) ==
  IF i >= Len(s) THEN <<>>
  ELSE IF s[i + 1] = ">" /\ SkipSpaces(s, i + 1) < Len(s) /\ s[SkipSpaces(s, i + 1) + 1] = "<"
  THEN <<">", "<">> \o CollapseFrom(s, SkipSpaces(s, i + 1) + 1)
  ELSE <<s[i + 1]>> \o CollapseFrom(s, i + 1)

\* The input of parseTokens: xml.trim() with the whitespace between > and <
\* removed.
CleanUp(xml) == CollapseFrom(Trim(xml), 0)

CdataOpen == <<"<", "!", "[", "C", "D", "A", "T", "A", "[">>

CdataClose == <<"]", "]", ">">>

CommentOpen == <<"<", "!", "-", "-">>

CommentClose == <<"-", "-", ">">>

Token(type, content) == [type |-> type, content |-> content]

RECURSIVE TextEnd(_, _)
\* while (i < xml.length && xml[i] !== '<') i++
TextEnd(s, i) == IF i < Len(s) /\ s[i + 1] # "<" THEN TextEnd(s, i + 1) ELSE i

\* A text token that keeps the whitespace around the text.
TextTokensUntrimmed(textContent) ==
  IF Trim(textContent) # <<>> THEN <<Token("text", textContent)>> ELSE <<>>

\* The text token of the characters read, if they are not all whitespace.
TextTokens(textContent) ==
  IF Trim(textContent) # <<>> THEN <<Token("text", Trim(textContent))>> ELSE <<>>

\* One iteration of the while loop of parseTokens at the offset i: the offset
\* afterwards and the tokens pushed.
ParseIteration(s, i) ==
  IF StartsWithAt(s, CdataOpen, i) /\ IndexOf(s, CdataClose, i) # -1
  THEN [i |-> IndexOf(s, CdataClose, i) + 3,
        push |-> <<Token("cdata", Substring(s, i, IndexOf(s, CdataClose, i) + 3))>>]
  ELSE IF StartsWithAt(s, CommentOpen, i) /\ IndexOf(s, CommentClose, i) # -1
  THEN [i |-> IndexOf(s, CommentClose, i) + 3,
        push |-> <<Token("comment", Substring(s, i, IndexOf(s, CommentClose, i) + 3))>>]
  ELSE IF s[i + 1] = "<" /\ IndexOf(s, <<">">>, i) # -1
  THEN [i |-> IndexOf(s, <<">">>, i) + 1,
        push |-> <<Token("tag", Substring(s, i, IndexOf(s, <<">">>, i) + 1))>>]
  ELSE [i |-> TextEnd(s, i),
        push |-> TextTokens(Substring(s, i, TextEnd(s, i)))]

\* this.indent.repeat(depth), the indent being two spaces.
Indent(depth) == [k \in 1..(2 * depth) |-> " "]

\* tag.startsWith(pat)
StartsWith(s, pat) == StartsWithAt(s, pat, 0)

\* tag.endsWith(pat)
EndsWith(s, pat) == Len(s) >= Len(pat) /\ SubSeq(s, Len(s) - Len(pat) + 1, Len(s)) = pat

\* An opening tag, one text token and a closing tag follow at the index k
\* (from 1).
IsSimpleElement(tokens, k) ==
  /\ k + 2 <= Len(tokens)
  /\ tokens[k + 1].type = "text"
  /\ tokens[k + 2].type = "tag"
  /\ StartsWith(tokens[k + 2].content, <<"<", "/">>)

\* Math.max(0, depth - 1) without the floor.
DepthAfterClosingUnfloored(depth) == depth - 1

\* Math.max(0, depth - 1)
DepthAfterClosing(depth) == IF depth - 1 > 0 THEN depth - 1 ELSE 0

\* The opening tag, the text and the closing tag at the index k, each on a
\* line of its own, the text one level deeper.
SimpleElementSplit(tokens, k, depth) ==
  [k |-> k + 3, depth |-> depth,
   push |-> <<Indent(depth) \o tokens[k].content,
              Indent(depth + 1) \o tokens[k + 1].content,
              Indent(depth) \o tokens[k + 2].content>>]

\* The simple element at the index k on one line: the token index moves on
\* by two more than the loop's own increment.
SimpleElement(tokens, k, depth) ==
  [k |-> k + 3, depth |-> depth,
   push |-> <<Indent(depth) \o tokens[k].content \o tokens[k + 1].content
                \o tokens[k + 2].content>>]

\* One iteration of the for loop of formatTokens at the token k (from 1) and
\* the depth given: the index and the depth afterwards, the lines pushed.
FormatIteration(tokens, k, depth) ==
  LET t == tokens[k]
      tag == t.content
  IN IF t.type \in {"comment", "cdata"}
     THEN [k |-> k + 1, depth |-> depth, push |-> <<Indent(depth) \o t.content>>]
     ELSE IF t.type = "text"
     THEN [k |-> k + 1, depth |-> depth, push |-> <<Indent(depth) \o t.content>>]
     ELSE IF StartsWith(tag, <<"<", "?">>) \/ StartsWith(tag, <<"<", "!">>)
     THEN [k |-> k + 1, depth |-> depth, push |-> <<tag>>]
     ELSE IF StartsWith(tag, <<"<", "/">>)
     THEN [k |-> k + 1, depth |-> DepthAfterClosing(depth),
           push |-> <<Indent(DepthAfterClosing(depth)) \o tag>>]
     ELSE IF EndsWith(tag, <<"/", ">">>)
     THEN [k |-> k + 1, depth |-> depth, push |-> <<Indent(depth) \o tag>>]
     ELSE IF IsSimpleElement(tokens, k)
     THEN SimpleElement(tokens, k, depth)
     ELSE [k |-> k + 1, depth |-> depth + 1, push |-> <<Indent(depth) \o tag>>]

RECURSIVE FormatLines(_, _, _)
\* The loop of formatTokens from the token k (from 1) at the depth given: the
\* lines pushed.
FormatLines(tokens, k, depth) ==
  IF k > Len(tokens) THEN <<>>
  ELSE LET r == FormatIteration(tokens, k, depth)
       IN r.push \o FormatLines(tokens, r.k, r.depth)

RECURSIVE Join(_)
\* lines.join('\n')
Join(lines) ==
  IF lines = <<>> THEN <<>>
  ELSE IF Len(lines) = 1 THEN lines[1]
  ELSE lines[1] \o <<"\n">> \o Join(Tail(lines))

\* The end of formatTokens: the lines, without the blank ones, their
\* trailing spaces removed, joined.
JoinLines(lines) ==
  LET kept == SelectSeq(lines, LAMBDA line : Trim(line) # <<>>)
  IN Join([k \in 1..Len(kept) |-> TrimEnd(kept[k])])

\* formatTokens(tokens), as a function of the tokens.
formatTokens(tokens) == JoinLines(FormatLines(tokens, 1, 0))

\* A formatXML call at the head of the loop of parseTokens.  calls: 1, or 2
\* when the input is the result of the first call (first).
Formatting(xml, calls, first) ==
  [pc |-> "parse", xml |-> xml, s |-> CleanUp(xml), i |-> 0, tokens |-> <<>>,
   iter |-> 0, calls |-> calls, first |-> first]

\* formatXML(xml) is called: trim, remove the whitespace between tags, and
\* enter parseTokens.
formatXML ==
  /\ fmt.pc = "idle"
  /\ \E xml \in Inputs : fmt' = Formatting(xml, 1, <<>>)
  /\ UNCHANGED <<engineVars, multi, uris>>

\* One iteration of the while loop of parseTokens.  The iterations are
\* counted (ghost), and followed for as many as the string has characters.
parseTokens ==
  /\ fmt.pc = "parse"
  /\ fmt.i < Len(fmt.s)
  /\ fmt.iter <= Len(fmt.s)
  /\ LET r == ParseIteration(fmt.s, fmt.i)
     IN fmt' = [fmt EXCEPT !.i = r.i, !.tokens = @ \o r.push, !.iter = @ + 1]
  /\ UNCHANGED <<engineVars, multi, uris>>

\* The loop of parseTokens is left: parseTokens returns the tokens and
\* formatTokens starts at the first of them, at the depth 0.
parseTokensReturns ==
  /\ fmt.pc = "parse"
  /\ fmt.i >= Len(fmt.s)
  /\ fmt' = [pc |-> "format", xml |-> fmt.xml, tokens |-> fmt.tokens,
             tokenIndex |-> 1, depth |-> 0, result |-> <<>>,
             calls |-> fmt.calls, first |-> fmt.first]
  /\ UNCHANGED <<engineVars, multi, uris>>

\* One iteration of the for loop of formatTokens.  tokenIndex counts from 1.
formatTokensIteration ==
  /\ fmt.pc = "format"
  /\ fmt.tokenIndex <= Len(fmt.tokens)
  /\ LET r == FormatIteration(fmt.tokens, fmt.tokenIndex, fmt.depth)
     IN fmt' = [fmt EXCEPT !.tokenIndex = r.k, !.depth = r.depth,
                           !.result = @ \o r.push]
  /\ UNCHANGED <<engineVars, multi, uris>>

\* The for loop of formatTokens is left: the lines are joined, and formatXML
\* returns.
formatTokensReturns ==
  /\ fmt.pc = "format"
  /\ fmt.tokenIndex > Len(fmt.tokens)
  /\ fmt' = [pc |-> "done", xml |-> fmt.xml, tokens |-> fmt.tokens,
             out |-> JoinLines(fmt.result), calls |-> fmt.calls, first |-> fmt.first]
  /\ UNCHANGED <<engineVars, multi, uris>>

\* formatXML is called on the result of the first call.
formatXMLAgain ==
  /\ fmt.pc = "done"
  /\ fmt.calls = 1
  /\ fmt' = Formatting(fmt.out, 2, fmt.out)
  /\ UNCHANGED <<engineVars, multi, uris>>

(* ------------------------ readable URIs of entries ---------------------- *)

\* createUri hands out the URI of an entry and records the readable ID of
\* its container in pathMappings; parseUri resolves a URI through that map.
\* A string is the sequence of its characters.

\* createUri calls in one behaviour of SpecUri.
MaxUriCalls == 3

\* The container paths of SpecUri.
UriContainerPaths ==
  { <<"/", "d", "o", "c", "s", "/", "a", "n", "n", "/", "d", "e", "c", "k", ".", "p", "p", "t", "x">>,
    <<"/", "d", "o", "c", "s", "/", "b", "o", "b", "/", "d", "e", "c", "k", ".", "p", "p", "t", "x">>,
    <<"/", "d", "o", "c", "s", "/", "a", "n", "n", "/", "p", "l", "a", "n", ".", "p", "p", "t", "x">>,
    <<"/", "w", "o", "r", "k", "/", "d", "e", "c", "k", ".", "p", "p", "t", "x">> }

\* The internal paths of SpecUri: a.xml, d/a.xml and /a.xml.
UriFilePaths ==
  { <<"a", ".", "x", "m", "l">>,
    <<"d", "/", "a", ".", "x", "m", "l">>,
    <<"/", "a", ".", "x", "m", "l">> }

\* The printable ASCII characters, from the space (code 32) on; the grave
\* accent (code 96) is spelled out.
Ascii ==
  <<" ", "!", "\"", "#", "$", "%", "&", "'", "(", ")", "*", "+", ",", "-",
    ".", "/", "0", "1", "2", "3", "4", "5", "6", "7", "8", "9", ":", ";",
    "<", "=", ">", "?", "@", "A", "B", "C", "D", "E", "F", "G", "H", "I",
    "J", "K", "L", "M", "N", "O", "P", "Q", "R", "S", "T", "U", "V", "W",
    "X", "Y", "Z", "[", "\\", "]", "^", "_", "grave", "a", "b", "c", "d", "e",
    "f", "g", "h", "i", "j", "k", "l", "m", "n", "o", "p", "q", "r", "s",
    "t", "u", "v", "w", "x", "y", "z", "{", "|", "}", "~">>

\* The byte of a character in UTF-8.
CharCode(ch) == 31 + (CHOOSE k \in 1..Len(Ascii) : Ascii[k] = ch)

\* Buffer.from(input, 'utf8')
Utf8(s) == [k \in 1..Len(s) |-> CharCode(s[k])]

Base64Alphabet ==
  <<"A", "B", "C", "D", "E", "F", "G", "H", "I", "J", "K", "L", "M", "N",
    "O", "P", "Q", "R", "S", "T", "U", "V", "W", "X", "Y", "Z", "a", "b",
    "c", "d", "e", "f", "g", "h", "i", "j", "k", "l", "m", "n", "o", "p",
    "q", "r", "s", "t", "u", "v", "w", "x", "y", "z", "0", "1", "2", "3",
    "4", "5", "6", "7", "8", "9", "+", "/">>

RECURSIVE ToBase64(_)
\* buffer.toString('base64'): three bytes give four characters; a last group
\* of one or two bytes is padded with =.
ToBase64(bytes) ==
  IF bytes = <<>> THEN <<>>
  ELSE LET n == Len(bytes)
           b1 == bytes[1]
           b2 == IF n >= 2 THEN bytes[2] ELSE 0
           b3 == IF n >= 3 THEN bytes[3] ELSE 0
       IN << Base64Alphabet[(b1 \div 4) + 1],
             Base64Alphabet[((b1 % 4) * 16 + (b2 \div 16)) + 1],
             IF n >= 2 THEN Base64Alphabet[((b2 % 16) * 4 + (b3 \div 64)) + 1] ELSE "=",
             IF n >= 3 THEN Base64Alphabet[(b3 % 64) + 1] ELSE "=" >>
            \o ToBase64(SubSeq(bytes, 4, n))

RECURSIVE UrlSafe(_)
\* .replace(/[/+=]/g, ...): / becomes _, + becomes -, = is removed.
UrlSafe(s) ==
  IF s = <<>> THEN <<>>
  ELSE (CASE Head(s) = "/" -> <<"_">>
          [] Head(s) = "+" -> <<"-">>
          [] Head(s) = "=" -> <<>>
          [] OTHER -> <<Head(s)>>) \o UrlSafe(Tail(s))

\* FileUtils.createShortHash(input), with the default length 6.
createShortHash(input) == Substring(UrlSafe(ToBase64(Utf8(input))), 0, 6)

\* s.lastIndexOf(ch), or -1.
LastIndexOf(s, ch) ==
  LET hits == {k \in 0..(Len(s) - 1) : s[k + 1] = ch}
  IN IF hits = {} THEN -1 ELSE CHOOSE k \in hits : \A j \in hits : j <= k

\* path.basename(filePath)
Basename(filePath) == Substring(filePath, LastIndexOf(filePath, "/") + 1, Len(filePath))

\* path.extname(filePath): from the last dot of the base name on, unless the
\* base name has no dot or begins with its only dot.
Extname(filePath) ==
  LET base == Basename(filePath)
      dot == LastIndexOf(base, ".")
  IN IF dot <= 0 THEN <<>> ELSE Substring(base, dot, Len(base))

\* FileUtils.extractPresentationName: path.basename(filePath, path.extname(filePath))
extractPresentationName(filePath) ==
  LET base == Basename(filePath)
      ext == Extname(filePath)
  IN IF ext # <<>> /\ Len(base) > Len(ext) /\ EndsWith(base, ext)
     THEN Substring(base, 0, Len(base) - Len(ext))
     ELSE base

\* `${presentationName}[${pathHash}]`
ReadableId(openXMLPath) ==
  extractPresentationName(openXMLPath) \o <<"[">> \o createShortHash(openXMLPath) \o <<"]">>

\* The text that createUri hands to vscode.Uri.parse.
UriText(openXMLPath, filePath) ==
  LET cleanFilePath == IF StartsWith(filePath, <<"/">>) THEN Substring(filePath, 1, Len(filePath))
                       ELSE filePath
  IN <<"o", "p", "e", "n", "x", "m", "l", ":", "/">> \o ReadableId(openXMLPath)
       \o <<"/">> \o cleanFilePath

\* vscode.Uri.parse(text).path for a text with a scheme and no authority:
\* what follows the colon of the scheme, up to the first ? or #.
UriPath(text) ==
  LET from == IndexOf(text, <<":">>, 0) + 1
      stops == {k \in from..(Len(text) - 1) : text[k + 1] \in {"?", "#"}}
      to == IF stops = {} THEN Len(text) ELSE CHOOSE k \in stops : \A j \in stops : k <= j
  IN Substring(text, from, to)

\* What parseUri returns for the path of a URI, with the mappings m: the
\* first part of the path is looked up, the rest is the internal path; a
\* path of one part or an unknown readable ID throws.
ParseUriPath(m, uriPath) ==
  LET rest == Substring(uriPath, 1, Len(uriPath))
      slash == IndexOf(rest, <<"/">>, 0)
      readableId == Substring(rest, 0, slash)
  IN IF slash = -1 \/ readableId \notin DOMAIN m
     THEN [ok |-> FALSE, openXMLPath |-> <<>>, filePath |-> <<>>]
     ELSE [ok |-> TRUE, openXMLPath |-> m[readableId],
           filePath |-> Substring(rest, slash + 1, Len(rest))]

\* createUri(openXMLPath, filePath)
createUri ==
  /\ uris.calls < MaxUriCalls
  /\ \E openXMLPath \in UriContainerPaths, filePath \in UriFilePaths :
       uris' = [uris EXCEPT
                  !.pathMappings = MapSet(@, ReadableId(openXMLPath), openXMLPath),
                  !.issued = @ \cup {[openXMLPath |-> openXMLPath, filePath |-> filePath,
                                      path |-> UriPath(UriText(openXMLPath, filePath))]},
                  !.calls = @ + 1,
                  !.op = "createUri"]
  /\ UNCHANGED <<engineVars, multi, fmt>>

\* parseUri(uri) on a URI that createUri handed out.
parseUri ==
  /\ \E u \in uris.issued :
       uris' = [uris EXCEPT !.asked = u,
                            !.parsed = ParseUriPath(uris.pathMappings, u.path),
                            !.op = "parseUri"]
  /\ UNCHANGED <<engineVars, multi, fmt>>

(* ---------------------------- specification ---------------------------- *)

Next ==
  \/ loadOpenXMLFile
  \/ \E e \in DOMAIN extracts : extractArchiveFiles(e)
  \/ \E e \in DOMAIN extracts : ReadStreamError(e)
  \/ \E e \in DOMAIN extracts : ArchiveError(e)
  \/ \E o \in Objs, p \in Paths, b \in Bytes : TempFileEdit(o, p, b)
  \/ \E o \in Objs, p \in Paths, orphan, recent \in BOOLEAN : TempDebounceFires(o, p, orphan, recent)
  \/ \E p \in Paths, b \in Bytes : writeFile(p, b)
  \/ autoSave
  \/ saveAllChanges
  \/ \E i \in DOMAIN saves : WriteStreamError(i)
  \/ \E i \in DOMAIN saves : SaveUnlink(i)
  \/ \E i \in DOMAIN saves : UnlinkFails(i)
  \/ \E i \in DOMAIN saves : SaveRename(i)
  \/ \E i \in DOMAIN saves : RenameFails(i)
  \/ \E p \in Paths, b \in Bytes : ExternalEdit(p, b)
  \/ \E o \in Objs : handleSourceFileChange(o)
  \/ \E h \in DOMAIN prompts : ChooseReload(h)
  \/ \E h \in DOMAIN prompts : ChooseKeep(h)
  \/ \E h \in DOMAIN prompts : ChooseSaveFirst(h)
  \/ \E h \in DOMAIN prompts : Decline(h)
  \/ closeOpenXMLFile
  \/ CloseSaveFirst
  \/ CloseWithoutSaving
  \/ CloseCancel

Spec == Init /\ [][Next]_vars

\* The engine with two container paths.
NextSessions ==
  \/ \E c \in ContainerPaths : OpenContainer(c)
  \/ \E c \in ContainerPaths, p \in Paths, b \in Bytes : EditTempFile(c, p, b)
  \/ \E c \in ContainerPaths, p \in Paths, orphan, recent \in BOOLEAN : SyncBack(c, p, orphan, recent)
  \/ \E c \in ContainerPaths, byTimer \in BOOLEAN : SaveChangesOf(c, byTimer)
  \/ \E c \in ContainerPaths : SaveFinish(c)
  \/ \E c \in ContainerPaths, p \in Paths, b \in Bytes : ExternalChange(c, p, b)
  \/ \E c \in ContainerPaths, answer \in ConflictAnswers : SourceChange(c, answer)
  \/ \E c \in ContainerPaths, cancel \in BOOLEAN : CloseContainer(c, cancel)

SpecSessions == Init /\ [][NextSessions]_vars

\* XMLFormatter.formatXML, called on an input and once more on its result.
NextFormat ==
  \/ formatXML
  \/ parseTokens
  \/ parseTokensReturns
  \/ formatTokensIteration
  \/ formatTokensReturns
  \/ formatXMLAgain

SpecFormat == Init /\ [][NextFormat]_vars

\* The engine with one container path when nothing fails from outside: the
\* container is opened, temp files are edited, and the timers and the
\* callbacks of the engine run; a sync-back runs while the edit is recent.
\* No I/O failure is injected, no other program touches the container, and
\* no command saves or closes.
NextLive ==
  \/ loadOpenXMLFile
  \/ \E e \in DOMAIN extracts : extractArchiveFiles(e)
  \/ \E o \in Objs, p \in Paths, b \in Bytes : TempFileEdit(o, p, b)
  \/ \E o \in Objs, p \in Paths, orphan \in BOOLEAN : TempDebounceFires(o, p, orphan, TRUE)
  \/ autoSave
  \/ \E i \in DOMAIN saves : SaveUnlink(i)
  \/ \E i \in DOMAIN saves : SaveRename(i)
  \/ \E o \in Objs : handleSourceFileChange(o)

\* Node's event loop runs every pending callback: an entry of the archive
\* that is being read, a timer that is pending, a write stream that closes.
Scheduling ==
  /\ WF_vars(\E e \in DOMAIN extracts : extractArchiveFiles(e))
  /\ WF_vars(\E o \in Objs, p \in Paths, orphan \in BOOLEAN : TempDebounceFires(o, p, orphan, TRUE))
  /\ WF_vars(autoSave)
  /\ WF_vars(\E i \in DOMAIN saves : SaveUnlink(i))
  /\ WF_vars(\E i \in DOMAIN saves : SaveRename(i))
  /\ WF_vars(\E o \in Objs : handleSourceFileChange(o))

SpecLive == Init /\ [][NextLive]_vars /\ Scheduling

\* createUri and parseUri of the provider.
NextUri ==
  \/ createUri
  \/ parseUri

SpecUri == Init /\ [][NextUri]_vars

(* -------------------------------- claims ------------------------------- *)

\* C1 (as claimed): during Save, between any two of its steps, originalPath
\* holds the complete pre-save container or the complete new one.  The state
\* examined is the one after fs.unlinkSync and before fs.renameSync.
C1_AllOrNothing ==
  \A i \in DOMAIN saves :
    saves[i].pc = "unlinked" =>
      /\ orig.ex
      /\ orig.img \in {saves[i].pre, saves[i].zip}

\* C2 (as claimed): when the rename step of Save fails, Save returns with
\* originalPath holding its pre-save content and with modified non-empty.
C2_RenameFailureKeepsOriginal ==
  [][op'.name = "renameFailed" =>
       /\ orig'.ex
       /\ orig'.img = saves[op'.k].pre
       /\ objs'[op'.o].modified # {}]_vars

\* C3 (as claimed): a Save replaces the container only if the container's
\* modification time is not newer than lastModified, or the Save was chosen
\* by the user as the resolution of the conflict ('Save First, Then Reload').
\* The replacement starts where originalPath is unlinked.
C3_NoOverwriteOfExternalEdit ==
  [][(orig.ex /\ ~orig'.ex) =>
       \/ orig.mt <= objs[saves[op'.k].o].lastModified
       \/ saves[op'.k].caller = "conflict"]_vars

\* C4 (as claimed): at most one Save of a session is between its first and
\* its last step.
C4_OneSaveAtATime ==
  \A i, j \in DOMAIN saves : saves[i].o = saves[j].o => i = j

\* C5 (as claimed): a Reload of a session begins only when no Save of that
\* session is in flight.
C5_NoReloadDuringSave ==
  [][(/\ Len(extracts') > Len(extracts)
      /\ extracts'[Len(extracts')].kind = "reload") =>
       \A i \in DOMAIN saves' : saves'[i].o # extracts'[Len(extracts')].o]_vars

\* C6 (as claimed): an external modification seen with modified non-empty
\* raises one prompt, and entries is not mutated while the prompt awaits the
\* user's choice.  Stated on the entries held when the prompt was raised, so
\* that an entry still arriving from the archive does not count as a mutation.
C6_OnePromptAndEntriesFrozen ==
  /\ \A h \in DOMAIN prompts :
       \A p \in DOMAIN prompts[h].snap.files :
         /\ p \in DOMAIN objs[prompts[h].o].files
         /\ objs[prompts[h].o].files[p] = prompts[h].snap.files[p]
  /\ \A h, g \in DOMAIN prompts :
       (/\ prompts[h].o = prompts[g].o
        /\ prompts[h].currentModified = prompts[g].currentModified) => h = g

\* C7: the Keep resolution sets lastModified to the container's new
\* modification time, the one of the external modification the prompt was
\* raised for and newer than the value it replaces, and leaves entries,
\* modified and tempFiles as they were.
C7_KeepFrame ==
  [][op'.name = "keep" =>
       LET h == prompts[op'.k]
       IN /\ objs'[h.o].lastModified = h.snap.orig.mt
          /\ h.snap.orig.mt > h.snap.lastModified
          /\ objs'[h.o].files = objs[h.o].files
          /\ objs'[h.o].modified = objs[h.o].modified
          /\ objs'[h.o].tempFiles = objs[h.o].tempFiles]_vars

\* C7 witness: Keep has been chosen for an external edit of the container:
\* lastModified is the edited container's modification time, the local
\* changes are still pending and entries still differ from the container.
C7_KeepChosen ==
  /\ op.name = "keep"
  /\ orig.ex
  /\ objs[op.o].lastModified = orig.mt
  /\ objs[op.o].modified # {}
  /\ \E p \in DOMAIN objs[op.o].files : objs[op.o].files[p] # orig.img[p]

\* C8 (as claimed): when the prompt is declined, entries, modified, tempFiles
\* and lastModified have the values they had when the prompt was raised, and
\* the container has not been written.  Entries and tempFiles are compared
\* on the keys held when the prompt was raised.
C8_DeclineLeavesState ==
  [][op'.name = "decline" =>
       LET h == prompts[op'.k]
       IN /\ \A p \in DOMAIN h.snap.files :
               /\ p \in DOMAIN objs'[h.o].files
               /\ objs'[h.o].files[p] = h.snap.files[p]
          /\ objs'[h.o].modified = h.snap.modified
          /\ h.snap.tempFiles \subseteq objs'[h.o].tempFiles
          /\ objs'[h.o].lastModified = h.snap.lastModified
          /\ orig' = h.snap.orig]_vars

\* C9 (as claimed): when no Save of a session is in progress, every entry
\* whose in-memory bytes differ from the container as last saved or loaded is
\* in modified.  Stated where the only Save of a fully extracted session has
\* just ended, on the entries the container holds: an entry changed while the
\* Save was writing is still in modified.
C9_ModifiedCoversDirty ==
  [][(/\ op'.name = "saved"
      /\ saves[op'.k].loaded
      /\ \A i \in DOMAIN saves' : saves'[i].o # op'.o) =>
       \A p \in DOMAIN objs'[op'.o].files \cap DOMAIN objs'[op'.o].base :
         objs'[op'.o].files[p] # objs'[op'.o].base[p] => p \in objs'[op'.o].modified]_vars

\* C10: every key of tempFiles is a key of entries, in every state, also
\* while a Reload or an extraction is in progress.
C10_TempFilesAreEntries ==
  \A o \in Objs : objs[o].tempFiles \subseteq DOMAIN objs[o].files

\* C10 witness: a Reload is extracting, one entry is materialized again and
\* another entry of the container is not loaded yet.
C10_DuringReload ==
  \E e \in DOMAIN extracts :
    /\ extracts[e].kind = "reload"
    /\ objs[extracts[e].o].tempFiles # {}
    /\ DOMAIN objs[extracts[e].o].files # DOMAIN extracts[e].zimg \ {"d/"}

\* C11: modified is a subset of the keys of entries, in every state reached
\* by any interleaving of writeFile, sync-back, Save, Reload and Close.
C11_ModifiedAreEntries ==
  \A o \in Objs : objs[o].modified \subseteq DOMAIN objs[o].files

\* C11 witness: a Reload is still extracting, and an entry written since the
\* Reload cleared the maps is in modified.
C11_ModifiedDuringReload ==
  \E e \in DOMAIN extracts :
    /\ extracts[e].kind = "reload"
    /\ objs[extracts[e].o].modified # {}

\* C12 (as claimed): an Open whose extraction met a failing read stream
\* installs no session; so when the extraction of an Open has read the
\* archive to its end and its session is the installed one, entries holds
\* every file entry of the container that was opened.
C12_NoPartialSession ==
  [][(/\ op'.name \in {"extract", "readError"}
      /\ extracts[op'.k].kind = "open"
      /\ Len(extracts') < Len(extracts)
      /\ cur' = op'.o) =>
       \A k \in 1..Len(FileEntries(extracts[op'.k].zimg)) :
         FileEntries(extracts[op'.k].zimg)[k] \in DOMAIN objs'[op'.o].files]_vars

\* C13 (as claimed): when the extraction of a Reload fails, entries, tempFiles
\* and modified of the session are those it held when the Reload was called.
C13_FailedReloadKeepsState ==
  [][(op'.name = "archiveError" /\ extracts[op'.k].kind = "reload") =>
       Observable(objs'[op'.o]) = extracts[op'.k].pre]_vars

\* C14 (as claimed): while a Reload is in progress, what a reader finds in the
\* session between two callbacks is what the session held when the Reload
\* was called, or holds every file entry of the container being reloaded.
C14_ReloadAtomic ==
  \A e \in DOMAIN extracts :
    extracts[e].kind = "reload" =>
      \/ Observable(objs[extracts[e].o]) = extracts[e].pre
      \/ \A k \in 1..Len(FileEntries(extracts[e].zimg)) :
           FileEntries(extracts[e].zimg)[k] \in DOMAIN objs[extracts[e].o].files

\* C15 (as claimed): Close cancels the pending timers of the session: when
\* the session has been cleaned up and the path removed from the opened
\* ones, no auto-save timer and no debounce timer of the session is pending.
C15_CloseCancelsTimers ==
  [][(opened /\ ~opened' /\ cur # 0) =>
       /\ autoTimers' = 0
       /\ objs'[cur].tTimers = {} /\ objs'[cur].zTimers = {}
       /\ ~objs'[cur].sTimer]_vars

\* C16 (as claimed): after Close, as long as the path is not opened again,
\* the temp directory of the closed session does not exist and its source
\* watcher and temp-file watchers are closed.
C16_ClosedSessionHoldsNothing ==
  (~opened /\ cur # 0) =>
    /\ ~objs[cur].tempDir
    /\ objs[cur].watchers = {}
    /\ ~objs[cur].srcWatch

\* The objects that are sessions: their temp directory exists and they hold an
\* open watcher.
Sessions ==
  {o \in Objs : objs[o].tempDir /\ (objs[o].srcWatch \/ objs[o].watchers # {})}

\* C17 (as claimed): at no time do two sessions, each with its own temp
\* directory and watchers, exist for the one originalPath.
C17_OneSessionPerPath == Cardinality(Sessions) <= 1

C19_IdenticalContentIsNoOp ==
  [][op'.name = "syncBack" =>
       LET p == EntryOrder[op'.k]
           d == objs[op'.o]
       IN (/\ p \in d.tempFiles /\ p \in DOMAIN d.tdisk /\ p \in DOMAIN d.files
           /\ d.files[p] = d.tdisk[p]) =>
            /\ objs'[op'.o].files = d.files
            /\ objs'[op'.o].modified = d.modified
            /\ autoTimers' = autoTimers]_vars

\* C19 witness: the only input after the open wrote the bytes of the entry
\* to the temp file of a.xml once more; its debounce timer has fired, nothing
\* is modified and no auto-save is pending.
C19_IdenticalSettled ==
  /\ op.name = "syncBack" /\ op.k = EntryNo("a.xml")
  /\ inputs = InputCost("open") + InputCost("tempEdit")
  /\ Len(objs) = 1 /\ opened
  /\ "a.xml" \in objs[1].tempFiles
  /\ objs[1].tdisk["a.xml"] = objs[1].files["a.xml"]
  /\ objs[1].modified = {} /\ autoTimers = 0

\* C20 (as claimed): at most one auto-save timer is pending for the path's
\* session, and at most one debounce timer for each of its temp files.
C20_OneTimerEach ==
  /\ autoTimers <= 1
  /\ \A o \in Objs, p \in Paths : PendingDebounce(objs[o], p) <= 1

\* C21: every edit written to a materialized temp file before a Save begins
\* is in the image that this Save writes, whether or not the debounced
\* watcher callback of the edit has fired: when saveChanges starts writing,
\* the image holds, for each materialized entry whose temp file exists, the
\* bytes of the temp file.
C21_SaveFoldsTempEdits ==
  [][Len(saves') = Len(saves) + 1 =>
       LET s == saves'[Len(saves')]
           d == objs[s.o]
       IN \A p \in d.tempFiles \cap DOMAIN d.tdisk :
            p \in DOMAIN s.zip /\ s.zip[p] = d.tdisk[p]]_vars

\* A save has begun while the debounce timer of an edited temp file is still
\* pending, and its image holds the edit.
C21_FoldedBeforeDebounce ==
  /\ op.name = "saveBegin"
  /\ \E i \in DOMAIN saves : \E p \in Paths :
       LET d == objs[saves[i].o]
       IN /\ p \in d.tTimers
          /\ p \in DOMAIN d.tdisk /\ p \in DOMAIN saves[i].zip /\ p \in DOMAIN d.base
          /\ saves[i].zip[p] = d.tdisk[p]
          /\ saves[i].zip[p] # d.base[p]

\* C22: after a successful Save, lastModified is the modification time of the
\* new container file, and the source-watcher callback that finds the
\* container as that Save left it is ignored: it neither reloads nor asks.
C22_OwnSaveIgnored ==
  [][/\ (op'.name = "saved" /\ op'.o \in DOMAIN objs' =>
           objs'[op'.o].lastModified = orig'.mt)
     /\ \A o \in Objs :
          handleSourceFileChange(o) /\ orig.ex /\ orig.mt = objs[o].savedMt =>
            op'.name = "ignore"]_vars

\* The steps in which a saveChanges call fails after its force-flush: the
\* write stream errors, or unlinkSync or renameSync throws.
SaveFailureSteps == {"writeFailed", "unlinkFailed", "renameFailed"}

\* C23: a Save that fails after its force-flush (backup, ZIP write, delete or
\* rename) propagates the error and leaves entries, modified and lastModified
\* alone: the failing step changes none of them and the caller's continuation
\* (cleanup, reload) does not run; when the session is still as the flush
\* left it, the container exists and modified is not empty, so a retry writes
\* the same image.  A failed backup copy leaves exactly the flushed state.
C23_FailedSaveKeepsState ==
  [][/\ op'.name \in SaveFailureSteps =>
          LET s == saves[op'.k]
              d == objs[s.o]
              e == objs'[s.o]
          IN /\ e.files = d.files
             /\ e.modified = d.modified
             /\ e.lastModified = d.lastModified
             /\ e.tempDir = d.tempDir /\ opened' = opened /\ extracts' = extracts
             /\ d.files = s.zip /\ d.modified = s.mod => orig'.ex /\ e.modified # {}
     /\ op'.name \in {"saveBegin", "saveFirst", "closeSaveFirst"} /\ SaveOutcome = "threw" =>
          /\ objs' = [objs EXCEPT ![cur] = syncAllTempFiles(objs[cur])]
          /\ saves' = saves /\ opened' = opened /\ extracts' = extracts]_vars

\* C24: Open followed by Save with no edits leaves the container's entries
\* byte for byte: a saveChanges call on a session that holds no edit (nothing
\* modified, every entry as extracted, every temp file equal to its entry)
\* starts no write and leaves the container, the .tmp and the .backup files
\* as they are.
C24_SaveWithoutEditsKeepsContainer ==
  [][/\ op'.name \in {"saveBegin", "saveFirst", "closeSaveFirst"}
     /\ cur # 0
     /\ objs[cur].modified = {}
     /\ objs[cur].files = objs[cur].base
     /\ \A p \in objs[cur].tempFiles \cap DOMAIN objs[cur].tdisk :
          p \in DOMAIN objs[cur].files /\ objs[cur].tdisk[p] = objs[cur].files[p]
     => /\ saves' = saves
        /\ orig' = orig /\ tmp' = tmp /\ backup' = backup]_vars

\* The save command has run right after an Open, nothing else having
\* happened: no save is in flight and the container is the one opened.
C24_SavedUnedited ==
  /\ op.name = "saveBegin"
  /\ inputs = InputCost("open") + InputCost("save")
  /\ cur # 0
  /\ objs[cur].files # EmptyMap
  /\ objs[cur].modified = {}
  /\ saves = <<>>
  /\ orig = File([n \in Names |-> 0], 1)

\* C25: a successful Save with a non-empty modified set writes a container
\* that holds every key of entries with its in-memory bytes, unmodified and
\* binary entries included: when a save completes, the container holds
\* exactly the entries of the session, as they were when the save took its
\* image or as they are now.
C25_SaveWritesFullImage ==
  [][op'.name = "saved" =>
       \/ orig'.img = saves[op'.k].zip
       \/ orig'.img = objs[saves[op'.k].o].files]_vars

\* C26: on a settled source event that finds the container strictly newer
\* than lastModified while modified is empty, the session reloads from the
\* container without asking: no prompt is raised, lastModified takes the
\* container's modification time and an extraction of the container as it is
\* on disk starts into the cleared session.
C26_CleanSessionReloadsUnasked ==
  [][\A o \in Objs :
       /\ handleSourceFileChange(o)
       /\ orig.ex
       /\ orig.mt > objs[o].lastModified
       /\ objs[o].modified = {}
       => /\ prompts' = prompts
          /\ Len(extracts') = Len(extracts) + 1
          /\ extracts'[Len(extracts')].o = o
          /\ extracts'[Len(extracts')].kind = "reload"
          /\ extracts'[Len(extracts')].zimg = orig.img
          /\ objs'[o].lastModified = orig.mt
          /\ objs'[o].files = EmptyMap
          /\ objs'[o].modified = {}]_vars

\* The source watcher has just started a reload of a session that had held
\* entries, nobody having been asked.
C26_ReloadedUnasked ==
  /\ op.name = "reload"
  /\ prompts = <<>>
  /\ \E e \in DOMAIN extracts :
       /\ extracts[e].o = op.o
       /\ extracts[e].kind = "reload"
       /\ extracts[e].pos = 1
       /\ extracts[e].pre.files # EmptyMap
       /\ extracts[e].pre.modified = {}

\* C27: an operation on one session (sync-back, Save, Reload, Close, and the
\* edits and events that lead to them) never changes the entries, modified,
\* tempFiles, lastModified or container file of a session opened for another
\* container path, nor creates or removes that session; and a Save leaves in
\* its container the image taken from its own session.
C27_SessionsIndependent ==
  [][\A c \in ContainerPaths :
       multi' # multi /\ multi'.op.c = c =>
         /\ \A c2 \in ContainerPaths \ {c} :
              /\ multi'.disk[c2] = multi.disk[c2]
              /\ (c2 \in DOMAIN multi'.openXMLFiles) = (c2 \in DOMAIN multi.openXMLFiles)
              /\ c2 \in DOMAIN multi.openXMLFiles =>
                   /\ Observable(multi'.openXMLFiles[c2]) = Observable(Session(c2))
                   /\ multi'.openXMLFiles[c2].lastModified = Session(c2).lastModified
         /\ multi'.op.name = "saved" => multi'.disk[c].img = multi.saving[c]]_vars

\* The save of one container has completed while the session of the other
\* container, with changes of its own, has a save in flight.
C27_SavedBesideOtherSave ==
  /\ multi.op = [name |-> "saved", c |-> "p.pptx"]
  /\ "q.pptx" \in DOMAIN multi.saving
  /\ multi.saving["q.pptx"] # multi.disk["p.pptx"].img
  /\ Session("q.pptx").modified # {}

\* C28: formatXML is total: on every input, one with an unterminated CDATA
\* section, comment or tag included, it terminates and returns a string.
\* The loop of parseTokens runs while i < xml.length, so it terminates when
\* every iteration moves i forward: an iteration never leaves i where it was.
C28_ParseAdvances ==
  [][fmt.pc = "parse" /\ fmt'.pc = "parse" /\ fmt'.iter = fmt.iter + 1 /\ fmt'.calls = fmt.calls
       => fmt'.i > fmt.i]_vars

\* C29: formatting is idempotent: when formatXML returns on an input and
\* returns again on its result, the second result is the first.
C29_FormatIdempotent ==
  fmt.pc = "done" /\ fmt.calls = 2 => fmt.out = fmt.first

\* formatXML has returned on the result of a first call that printed nested
\* elements on several indented lines.
C29_FormattedTwice ==
  /\ fmt.pc = "done"
  /\ fmt.calls = 2
  /\ \E k \in 1..Len(fmt.first) : fmt.first[k] = "\n"
  /\ \E k \in 1..(Len(fmt.first) - 1) : fmt.first[k] = " " /\ fmt.first[k + 1] = " "
  /\ Len(fmt.tokens) >= 3
  /\ fmt.tokens[1] = Token("tag", <<"<", "a", ">">>)

RECURSIVE TokensFrom(_, _)
\* The tokens parseTokens finds in s from the offset i on, up to the end or
\* to the first offset it does not get past.
TokensFrom(s, i) ==
  IF i >= Len(s) \/ ParseIteration(s, i).i <= i THEN <<>>
  ELSE ParseIteration(s, i).push \o TokensFrom(s, ParseIteration(s, i).i)

\* The CDATA sections among tokens, in order.
CdataSections(tokens) ==
  LET cd == SelectSeq(tokens, LAMBDA t : t.type = "cdata")
  IN [k \in 1..Len(cd) |-> cd[k].content]

\* C30: formatXML emits every CDATA section with its payload unescaped and
\* character for character as in the input: the CDATA sections of the tokens
\* it prints are the CDATA sections of its trimmed input.
C30_CdataUnmodified ==
  fmt.pc = "done" /\ fmt.calls = 1 =>
    CdataSections(fmt.tokens) = CdataSections(TokensFrom(Trim(fmt.xml), 0))

\* A tag that opens an element: no declaration, no closing tag, not
\* self-closing.
IsOpeningTag(t) ==
  /\ t.type = "tag"
  /\ ~StartsWith(t.content, <<"<", "?">>)
  /\ ~StartsWith(t.content, <<"<", "!">>)
  /\ ~StartsWith(t.content, <<"<", "/">>)
  /\ ~EndsWith(t.content, <<"/", ">">>)

IsClosingTag(t) == t.type = "tag" /\ StartsWith(t.content, <<"<", "/">>)

\* <a><a>t</a></a>
NestedSimpleElement ==
  <<"<", "a", ">", "<", "a", ">", "t", "<", "/", "a", ">", "<", "/", "a", ">">>

\* The lines <a>, two spaces and <a>t</a>, </a>.
NestedSimpleElementFormatted ==
  <<"<", "a", ">", "\n", " ", " ", "<", "a", ">", "t", "<", "/", "a", ">", "\n",
    "<", "/", "a", ">">>

\* C31: an iteration of formatTokens at an opening tag that is followed by
\* one text token and then a closing tag pushes one line, the three token
\* contents one after the other behind the indent of the current depth,
\* leaves the depth as it is and moves the token index past all three; and
\* <a><a>t</a></a> is returned as the three lines <a>, "  <a>t</a>", </a>.
C31_SimpleElementOnOneLine ==
  [][/\ ( /\ fmt.pc = "format"
          /\ fmt'.pc = "format"
          /\ fmt.tokenIndex + 2 <= Len(fmt.tokens)
          /\ IsOpeningTag(fmt.tokens[fmt.tokenIndex])
          /\ fmt.tokens[fmt.tokenIndex + 1].type = "text"
          /\ IsClosingTag(fmt.tokens[fmt.tokenIndex + 2])
          => /\ fmt'.result =
                  Append(fmt.result,
                         Indent(fmt.depth) \o fmt.tokens[fmt.tokenIndex].content
                           \o fmt.tokens[fmt.tokenIndex + 1].content
                           \o fmt.tokens[fmt.tokenIndex + 2].content)
             /\ fmt'.depth = fmt.depth
             /\ fmt'.tokenIndex = fmt.tokenIndex + 3 )
     /\ ( /\ fmt.pc = "format"
          /\ fmt'.pc = "done"
          /\ fmt.xml = NestedSimpleElement
          => fmt'.out = NestedSimpleElementFormatted )]_vars

\* <a><a>t</a></a> has been formatted: its simple element was met at the
\* depth 1.
C31_NestedSimpleElementDone ==
  /\ fmt.pc = "done"
  /\ fmt.calls = 1
  /\ fmt.xml = NestedSimpleElement
  /\ Len(fmt.tokens) = 5
  /\ fmt.out = NestedSimpleElementFormatted

\* C35: the depth of formatTokens is never negative: an iteration at a
\* closing tag lowers the depth by one, but not below 0, and pushes the tag
\* behind the indent of the lowered depth, so that a closing tag met at the
\* depth 0 is pushed at the depth 0.
C35_DepthNeverNegative ==
  [][/\ (fmt'.pc = "format" => fmt'.depth >= 0)
     /\ ( /\ fmt.pc = "format"
          /\ fmt'.pc = "format"
          /\ IsClosingTag(fmt.tokens[fmt.tokenIndex])
          => /\ fmt'.depth = (IF fmt.depth = 0 THEN 0 ELSE fmt.depth - 1)
             /\ fmt'.result =
                  Append(fmt.result,
                         Indent(fmt'.depth) \o fmt.tokens[fmt.tokenIndex].content)
             /\ (fmt.depth = 0 =>
                   fmt'.result = Append(fmt.result, fmt.tokens[fmt.tokenIndex].content)) )]_vars

\* Two closing tags without an opening tag have been passed: both were
\* pushed at the depth 0.
C35_ExcessClosingTags ==
  /\ fmt.pc = "format"
  /\ fmt.tokenIndex = 3
  /\ IsClosingTag(fmt.tokens[1])
  /\ IsClosingTag(fmt.tokens[2])
  /\ fmt.depth = 0
  /\ fmt.result = <<fmt.tokens[1].content, fmt.tokens[2].content>>

\* C32: a debounce timer of a temp file fires on a temp file that is mapped,
\* exists, was modified recently and differs from its entry: the entry takes
\* the content of the temp file, its path is added to modified, one more
\* auto-save timer is pending, and every other entry, tempFiles and the
\* container are as before.
C32_SyncBackStoresAndMarks ==
  [][\A o \in Objs, p \in Paths, orphan \in BOOLEAN :
       /\ TempDebounceFires(o, p, orphan, TRUE)
       /\ p \in objs[o].tempFiles
       /\ p \in DOMAIN objs[o].tdisk
       /\ (p \notin DOMAIN objs[o].files \/ objs[o].files[p] # objs[o].tdisk[p])
       => /\ p \in DOMAIN objs'[o].files
          /\ objs'[o].files[p] = objs[o].tdisk[p]
          /\ objs'[o].modified = objs[o].modified \cup {p}
          /\ autoTimers' = autoTimers + 1
          /\ DOMAIN objs'[o].files = DOMAIN objs[o].files \cup {p}
          /\ \A q \in DOMAIN objs[o].files \ {p} : objs'[o].files[q] = objs[o].files[q]
          /\ objs'[o].tempFiles = objs[o].tempFiles
          /\ objs'[o].tdisk = objs[o].tdisk
          /\ orig' = orig]_vars

\* A sync-back has just stored an edit of a temp file that had not been
\* marked before.
C32_SyncBackStored ==
  /\ op.name = "syncBack"
  /\ op.o = cur
  /\ \E p \in Paths :
       /\ EntryNo(p) = op.k
       /\ p \in objs[cur].modified
       /\ p \in DOMAIN objs[cur].files
       /\ p \in DOMAIN objs[cur].tdisk
       /\ objs[cur].files[p] = objs[cur].tdisk[p]
       /\ objs[cur].files[p] # objs[cur].base[p]
       /\ objs[cur].modified = {p}
  /\ autoTimers = 1

\* C33: when the extraction of an Open or of a Reload resolves, entries holds
\* exactly the file entries of the container as it was read, each with its
\* payload, and no directory entry; modified is empty; and tempFiles holds
\* exactly the entries with the extension .xml or .rels.
C33_LoadedImageIsContainer ==
  [][(/\ op'.name \in {"extract", "readError"}
      /\ ~extracts[op'.k].resolved
      /\ \/ Len(extracts') < Len(extracts)
         \/ extracts'[op'.k].resolved) =>
       LET zimg == extracts[op'.k].zimg
           d == objs'[op'.o]
       IN /\ DOMAIN d.files = {n \in DOMAIN zimg : ~EndsWithSlash(n)}
          /\ \A n \in DOMAIN d.files : d.files[n] = zimg[n]
          /\ d.modified = {}
          /\ d.tempFiles = {n \in DOMAIN d.files : isXMLFile(n)}]_vars

\* C34: when the Reload of 'Save First, Then Reload' resolves after its save
\* has written the container, entries is the image that the save handed to
\* be written, the session's entries at the moment of the save, and modified
\* is empty.
C34_SaveThenReloadKeepsLocal ==
  [][(/\ op'.name \in {"extract", "readError"}
      /\ extracts[op'.k].savedFirst.ex
      /\ ~extracts[op'.k].resolved
      /\ \/ Len(extracts') < Len(extracts)
         \/ extracts'[op'.k].resolved) =>
       /\ objs'[op'.o].files = extracts[op'.k].savedFirst.zip
       /\ objs'[op'.o].modified = {}]_vars

\* C36: when every saveChanges call on the session has returned, with success
\* or with an error, a file exists at originalPath: saves that share the
\* .backup and the .tmp file never leave the container missing.
C36_ContainerSurvivesSaves ==
  (saves = <<>> /\ cpu = 0) => orig.ex

\* C37: the image that a saveChanges call hands to be written holds, for
\* every entry written through writeFile since the last save, Reload or edit
\* of its temp file, the bytes that writeFile stored, also when the entry
\* has a temp file with older content.
C37_WriteFileBytesAreSaved ==
  [][Len(saves') = Len(saves) + 1 =>
       LET s == saves'[Len(saves')]
           d == objs[s.o]
       IN \A p \in DOMAIN d.written :
            p \in DOMAIN s.zip /\ s.zip[p] = d.written[p]]_vars

\* C38: when the debounce of the source watcher fires and the container is
\* as a restore from the backup after a failed save left it, the handler
\* ignores the event: it raises no conflict prompt and starts no Reload.
C38_RestoreIgnored ==
  [][\A o \in Objs :
       /\ handleSourceFileChange(o)
       /\ orig.ex
       /\ orig.mt = objs[o].restoredMt
       => op'.name = "ignore"]_vars

\* Every materialized temp file of the session is in the container as it is
\* on disk, and nothing is marked modified.
TempEditsSaved ==
  cur # 0 =>
    /\ objs[cur].modified = {}
    /\ \A p \in objs[cur].tempFiles \cap DOMAIN objs[cur].tdisk :
         /\ orig.ex
         /\ p \in DOMAIN orig.img
         /\ orig.img[p] = objs[cur].tdisk[p]

\* C39: when the callbacks are scheduled fairly and no saveChanges call
\* throws, every edit of a temp file is eventually in the container and
\* modified is eventually empty, and they stay so once the edits have ended.
C39_EditsEventuallySaved ==
  (<>(op.name \in SaveFailureSteps)) \/ <>[]TempEditsSaved

\* C40: parseUri on a URI that createUri made for the container path p and
\* the internal path f, f not beginning with a slash, returns p and f,
\* whatever createUri calls for other container paths came in between.
C40_ParseInvertsCreate ==
  (uris.op = "parseUri" /\ ~StartsWith(uris.asked.filePath, <<"/">>)) =>
    /\ uris.parsed.ok
    /\ uris.parsed.openXMLPath = uris.asked.openXMLPath
    /\ uris.parsed.filePath = uris.asked.filePath

====
